---- MODULE Spec2Model ----
(***************************************************************************)
(* A model of lib3h's websocket transport manager (TransportWss):         *)
(* the connection table, the per-connection handshake state machine,      *)
(* the heartbeat policy and the event outbox; and of the crypto API's     *)
(* buffers (InsecureBuffer) and its reference FakeCryptoSystem.           *)
(***************************************************************************)
EXTENDS Integers, Sequences, FiniteSets, TLC

VARIABLES
    tls_config,      \* TransportWss.tls_config
    stream_sockets,  \* TransportWss.stream_sockets: ConnectionId -> WssInfo
    event_queue,     \* TransportWss.event_queue
    n_id,            \* TransportWss.n_id: the counter behind ConnectionIdFactory
    inbox,           \* TransportWss.inbox
    acceptor,        \* TransportWss.acceptor: "Err" (not initialized) or "Ok"
    result,          \* what the API call that has just returned gave its caller
    wire,            \* frames the call that has just returned wrote, per socket
    track,           \* which parts of the history are recorded
    watch,           \* the connection id whose history is recorded
    h_issued,        \* history: how often watch was handed out (connect or acceptor)
    h_dialed,        \* history: connect returned watch
    h_connected,     \* history: an earlier process returned ConnectResult/Connection(watch)
    h_closed,        \* history: an earlier process returned Closed(watch)
    h_close_called,  \* history: close(watch) has returned
    wc,              \* wait_connect's frame: where it is, its locals
    peers,           \* two connected managers, "A" and "B" (SpecPair)
    net,             \* frames in flight between them (SpecPair)
    sent_log,        \* history: payloads enqueued at A (SpecPair)
    recv_log,        \* history: payloads of the Received events B returned (SpecPair)
    bufs,            \* the buffers a crypto client holds: name -> InsecureBuffer
    heap,            \* the boxed byte slices: address -> bytes
    cres,            \* what the buffer or crypto call that has just returned gave
    entry            \* an EntryData, the one merged into it, what merge returned

mgr_vars == <<tls_config, stream_sockets, event_queue, n_id, inbox, acceptor>>
obs_vars == <<result, wire, track, watch, h_issued, h_dialed, h_connected, h_closed,
              h_close_called, wc>>
pair_vars == <<peers, net, sent_log, recv_log>>
crypto_vars == <<bufs, heap, cres>>
net_vars == <<mgr_vars, obs_vars, pair_vars>>
data_vars == <<entry>>
rest_vars == <<net_vars, data_vars>>
vars == <<mgr_vars, obs_vars, pair_vars, crypto_vars, data_vars>>

----------------------------------------------------------------------------
(* Bounds of the model *)

\* ids the factory may hand out before the model stops asking for more
MaxId == 3
\* records the environment lets the table hold at once
MaxConn == 2
\* payloads a caller leaves queued on one record
MaxQueue == 1
\* commands a caller leaves posted
MaxInbox == 2
\* milliseconds by which the clock advances between two calls
TimeStep == 3000
\* payloads A sends in the two-manager specification
MaxSent == 3
\* payloads waiting in one outbound queue, where the queue is what is studied
MaxBacklog == 2
\* ids handed out there
MaxDials == 2
\* ms from one poll of wait_connect to the next: its sleep and its process
PollSleep == 2500

----------------------------------------------------------------------------
(* Program constants *)

DEFAULT_HEARTBEAT_MS == 2000
DEFAULT_HEARTBEAT_WAIT_MS == 5000

\* TlsConfig::SuppliedCertificate takes FakeServer's branch everywhere
\* (lines 442 and 462-470) and is left out
TlsConfigs == {"Unencrypted", "FakeServer"}

Stages == {"None", "Connecting", "ConnectingSrv", "TlsMidHandshake",
           "TlsSrvMidHandshake", "TlsReady", "TlsSrvReady", "WsMidHandshake",
           "WsSrvMidHandshake", "WssMidHandshake", "WssSrvMidHandshake",
           "ReadyWs", "ReadyWss"}

Payloads == {"p1", "p2"}

\* url -> (host_str, port) as the url crate parses them
Urls == {"wss://127.0.0.1:8080", "wss://127.0.0.1", "data:text"}
GoodUrl == "wss://127.0.0.1:8080"

host_str(uri) == IF uri = "data:text" THEN "" ELSE "127.0.0.1"

port(uri) == IF uri = "wss://127.0.0.1:8080" THEN 8080 ELSE 0

----------------------------------------------------------------------------
(* Values *)

EmptyMap == [x \in {} |-> x]

Insert(map, k, v) == [x \in DOMAIN map \cup {k} |-> IF x = k THEN v ELSE map[x]]

Remove(map, k) == [x \in DOMAIN map \ {k} |-> map[x]]

\* format!("ws{}", n)
format_id(n) == <<"ws", n>>

Ids == {format_id(n) : n \in 1..(MaxId + 1)}

\* no connection id
NoId == <<"", 0>>

ConnectResult(id) == [type |-> "ConnectResult", id |-> id, data |-> ""]
Connection(id) == [type |-> "Connection", id |-> id, data |-> ""]
Received(id, msg) == [type |-> "Received", id |-> id, data |-> msg]
Closed(id) == [type |-> "Closed", id |-> id, data |-> ""]
\* the error a TransportError event carries is kept as its cause
TransportErrorEvt(id, e) == [type |-> "TransportError", id |-> id, data |-> e]

Frame(kind, data) == [kind |-> kind, data |-> data]

\* a buffer or crypto call's name, its return value and the bytes it gave
Call(op, ret, data) == [op |-> op, ret |-> ret, data |-> data]

\* no crypto client: no buffer, no call
EntryData(entry_address, aspect_list) ==
    [entry_address |-> entry_address, aspect_list |-> aspect_list]

DataIdle == entry = [self |-> EntryData("", <<>>), other |-> EntryData("", <<>>),
                     ret |-> FALSE]

CryptoIdle ==
    /\ bufs = EmptyMap
    /\ heap = EmptyMap
    /\ cres = Call("", "", <<>>)

\* the frames written to socket id in a call, when there are any
PutWire(w, id, frames) == IF frames = <<>> THEN w ELSE Insert(w, id, frames)

IsReady(stage) == stage \in {"ReadyWs", "ReadyWss"}

\* info.last_msg.elapsed(): the record keeps the time since last_msg, which
\* is all the code ever reads of it; every value past the dead-peer limit
\* reads the same
elapsed(info) == info.idle

Clamp(t) == IF t > DEFAULT_HEARTBEAT_WAIT_MS THEN DEFAULT_HEARTBEAT_WAIT_MS + 1 ELSE t

\* WssInfo::new
\* a variant that starts every record as a dialed one
WssInfo_new_dialed(id, url, is_server) ==
    [id |-> id, url |-> url, idle |-> 0, send_queue |-> <<>>,
     stateful_socket |-> "Connecting"]

WssInfo_new(id, url, is_server) ==
    [id |-> id, url |-> url, idle |-> 0, send_queue |-> <<>>,
     stateful_socket |-> IF is_server THEN "ConnectingSrv" ELSE "Connecting"]

----------------------------------------------------------------------------
(* What the sockets and the handshake drivers answer in one tick *)

HsResults == {"Ok", "WouldBlock", "Fatal"}

\* what read_message answers: no frame yet, an error, or a frame.
\* ConnectionReset is Error::Io with ErrorKind::ConnectionReset, IoError any
\* other Error::Io but WouldBlock, ConnectionClosed the peer's close frame
ReadResults ==
    {Frame("WouldBlock", ""), Frame("IoError", ""), Frame("ConnectionReset", ""),
     Frame("ConnectionClosed", ""), Frame("ProtocolError", ""), Frame("Pong", ""),
     Frame("Binary", "p1"), Frame("Text", "p1")}

NoIo == [hs |-> "Ok", ident |-> TRUE, wfail |-> 0, rd |-> Frame("WouldBlock", ""),
         ping |-> "Ok"]

PingResults(info) ==
    IF elapsed(info) > DEFAULT_HEARTBEAT_MS THEN {"Ok", "Err"} ELSE {"Ok"}

IoChoices(info, tls, reads) ==
    LET st == info.stateful_socket IN
    IF st = "None" THEN {NoIo}
    ELSE IF IsReady(st) THEN
        {[NoIo EXCEPT !.wfail = k] : k \in 1..Len(info.send_queue)}
        \cup {[NoIo EXCEPT !.rd = r, !.ping = p] :
                r \in reads, p \in PingResults(info)}
    ELSE IF st = "ConnectingSrv" /\ tls # "Unencrypted" THEN
        {[NoIo EXCEPT !.ident = FALSE]} \cup {[NoIo EXCEPT !.hs = h] : h \in HsResults}
    ELSE IF st \in {"Connecting", "ConnectingSrv", "TlsReady", "TlsSrvReady",
                    "TlsMidHandshake", "TlsSrvMidHandshake"} THEN
        {[NoIo EXCEPT !.hs = h] : h \in HsResults}
    ELSE
        {[NoIo EXCEPT !.hs = h, !.ping = p] : h \in HsResults, p \in PingResults(info)}

----------------------------------------------------------------------------
(* The handshake drivers *)

HsOut(err, stage, events) == [err |-> err, stage |-> stage, events |-> events]

\* a variant that swallows the fatal error
priv_tls_handshake_swallow(res) ==
    CASE res = "WouldBlock" -> HsOut(FALSE, "TlsMidHandshake", <<>>)
      [] res = "Fatal" -> HsOut(FALSE, "None", <<>>)
      [] OTHER -> HsOut(FALSE, "TlsReady", <<>>)

priv_tls_handshake(res) ==
    CASE res = "WouldBlock" -> HsOut(FALSE, "TlsMidHandshake", <<>>)
      [] res = "Fatal" -> HsOut(TRUE, "None", <<>>)
      [] OTHER -> HsOut(FALSE, "TlsReady", <<>>)

priv_tls_srv_handshake(res) ==
    CASE res = "WouldBlock" -> HsOut(FALSE, "TlsSrvMidHandshake", <<>>)
      [] res = "Fatal" -> HsOut(TRUE, "None", <<>>)
      [] OTHER -> HsOut(FALSE, "TlsSrvReady", <<>>)

\* a variant that reports the connection before the handshake is done
priv_ws_handshake_early(id, res) ==
    CASE res = "WouldBlock" -> HsOut(FALSE, "WsMidHandshake", <<ConnectResult(id)>>)
      [] res = "Fatal" -> HsOut(TRUE, "None", <<>>)
      [] OTHER -> HsOut(FALSE, "ReadyWs", <<ConnectResult(id)>>)

priv_ws_handshake(id, res) ==
    CASE res = "WouldBlock" -> HsOut(FALSE, "WsMidHandshake", <<>>)
      [] res = "Fatal" -> HsOut(TRUE, "None", <<>>)
      [] OTHER -> HsOut(FALSE, "ReadyWs", <<ConnectResult(id)>>)

priv_wss_handshake(id, res) ==
    CASE res = "WouldBlock" -> HsOut(FALSE, "WssMidHandshake", <<>>)
      [] res = "Fatal" -> HsOut(TRUE, "None", <<>>)
      [] OTHER -> HsOut(FALSE, "ReadyWss", <<ConnectResult(id)>>)

\* a variant that completes the handshake without its Connection event
priv_ws_srv_handshake_silent(id, res) ==
    CASE res = "WouldBlock" -> HsOut(FALSE, "WsSrvMidHandshake", <<>>)
      [] res = "Fatal" -> HsOut(TRUE, "None", <<>>)
      [] OTHER -> HsOut(FALSE, "ReadyWs", <<>>)

priv_ws_srv_handshake(id, res) ==
    CASE res = "WouldBlock" -> HsOut(FALSE, "WsSrvMidHandshake", <<>>)
      [] res = "Fatal" -> HsOut(TRUE, "None", <<>>)
      [] OTHER -> HsOut(FALSE, "ReadyWs", <<Connection(id)>>)

priv_wss_srv_handshake(id, res) ==
    CASE res = "WouldBlock" -> HsOut(FALSE, "WssSrvMidHandshake", <<>>)
      [] res = "Fatal" -> HsOut(TRUE, "None", <<>>)
      [] OTHER -> HsOut(FALSE, "ReadyWss", <<Connection(id)>>)

----------------------------------------------------------------------------
(* priv_process_socket: one record's step in a tick *)

\* info: the record afterwards; events: pushed to self.event_queue;
\* err: the error `?` returned ("" for Ok); out: frames written to the
\* socket; read: a frame was taken from the socket
SockOut(info, events, did_work, err, out) ==
    [info |-> info, events |-> events, did_work |-> did_work, err |-> err, out |-> out,
     read |-> FALSE]

\* a handshake driver's answer installed in the record (or `?` leaving None)
Installed(info, hs, did_work) ==
    SockOut([info EXCEPT !.stateful_socket = hs.stage], hs.events, did_work,
            IF hs.err THEN "handshake" ELSE "", <<>>)

\* tungstenite::Message -> the bytes queued as Received, if any
qmsg(msg) ==
    CASE msg.kind = "Text" -> <<msg.data>>      \* s.into_bytes()
      [] msg.kind = "Binary" -> <<msg.data>>
      [] OTHER -> <<>>

\* a variant that counts a read that would block as work
ReadStep_busy(info, ready, rd, out) ==
    CASE rd.kind = "WouldBlock" ->
            SockOut([info EXCEPT !.stateful_socket = ready], <<>>, TRUE, "", out)
      [] rd.kind \in {"IoError", "ConnectionReset"} ->
            SockOut(info, <<>>, FALSE, "io", out)
      [] rd.kind = "ConnectionClosed" -> SockOut(info, <<>>, FALSE, "", out)
      [] rd.kind = "ProtocolError" -> SockOut(info, <<>>, FALSE, "protocol", out)
      [] OTHER ->
            [SockOut([info EXCEPT !.idle = 0, !.stateful_socket = ready],
                     [i \in 1..Len(qmsg(rd)) |-> Received(info.id, qmsg(rd)[i])],
                     TRUE, "", out) EXCEPT !.read = TRUE]

\* the read half of a Ready record's step
ReadStep(info, ready, rd, out) ==
    CASE rd.kind = "WouldBlock" ->
            SockOut([info EXCEPT !.stateful_socket = ready], <<>>, FALSE, "", out)
      [] rd.kind \in {"IoError", "ConnectionReset"} ->
            SockOut(info, <<>>, FALSE, "io", out)
      [] rd.kind = "ConnectionClosed" -> SockOut(info, <<>>, FALSE, "", out)
      [] rd.kind = "ProtocolError" -> SockOut(info, <<>>, FALSE, "protocol", out)
      [] OTHER ->
            [SockOut([info EXCEPT !.idle = 0, !.stateful_socket = ready],
                     [i \in 1..Len(qmsg(rd)) |-> Received(info.id, qmsg(rd)[i])],
                     TRUE, "", out) EXCEPT !.read = TRUE]

\* a variant that drains the queue and writes none of it
ReadyStep_unsent(info, ready, io) ==
    LET drained == [info EXCEPT !.send_queue = <<>>, !.stateful_socket = "None"]
    IN IF io.wfail \in 1..Len(info.send_queue)
       THEN SockOut(drained, <<>>, FALSE, "write", <<>>)
       ELSE ReadStep(drained, ready, io.rd, <<>>)

\* a variant that keeps what a failed write has left for the next tick
ReadyStep_retry(info, ready, io) ==
    LET msgs == info.send_queue
        drained == [info EXCEPT !.send_queue = <<>>, !.stateful_socket = "None"]
        bin(n) == [i \in 1..n |-> Frame("Binary", msgs[i])]
    IN IF io.wfail \in 1..Len(msgs)
       THEN SockOut([info EXCEPT !.send_queue = SubSeq(msgs, io.wfail, Len(msgs)),
                                 !.stateful_socket = ready],
                    <<>>, FALSE, "write", bin(io.wfail - 1))
       ELSE ReadStep(drained, ready, io.rd, bin(Len(msgs)))

\* a Ready record's step: drain the queue into the socket, then read once
ReadyStep(info, ready, io) ==
    LET msgs == info.send_queue
        drained == [info EXCEPT !.send_queue = <<>>, !.stateful_socket = "None"]
        bin(n) == [i \in 1..n |-> Frame("Binary", msgs[i])]
    IN IF io.wfail \in 1..Len(msgs)
       THEN SockOut(drained, <<>>, FALSE, "write", bin(io.wfail - 1))
       ELSE ReadStep(drained, ready, io.rd, bin(Len(msgs)))

priv_process_socket(info0, tls, io) ==
    LET st == info0.stateful_socket
        \* std::mem::replace(&mut info.stateful_socket, None)
        info == [info0 EXCEPT !.stateful_socket = "None"]
        now == [info EXCEPT !.idle = 0]
    IN CASE st = "None" -> SockOut(info, <<>>, FALSE, "", <<>>)
         [] st = "Connecting" ->
              IF tls = "Unencrypted"
              THEN Installed(now, priv_ws_handshake(info.id, io.hs), TRUE)
              ELSE Installed(now, priv_tls_handshake(io.hs), TRUE)
         [] st = "ConnectingSrv" ->
              IF tls = "Unencrypted"
              THEN Installed(now, priv_ws_srv_handshake(info.id, io.hs), TRUE)
              ELSE IF ~io.ident
              THEN SockOut(now, <<>>, TRUE, "identity", <<>>)
              ELSE Installed(now, priv_tls_srv_handshake(io.hs), TRUE)
         [] st = "TlsMidHandshake" -> Installed(info, priv_tls_handshake(io.hs), FALSE)
         [] st = "TlsSrvMidHandshake" ->
              Installed(info, priv_tls_srv_handshake(io.hs), FALSE)
         [] st = "TlsReady" -> Installed(now, priv_wss_handshake(info.id, io.hs), TRUE)
         [] st = "TlsSrvReady" ->
              Installed(now, priv_wss_srv_handshake(info.id, io.hs), TRUE)
         [] st = "WsMidHandshake" ->
              Installed(info, priv_ws_handshake(info.id, io.hs), FALSE)
         [] st = "WsSrvMidHandshake" ->
              Installed(info, priv_ws_srv_handshake(info.id, io.hs), FALSE)
         [] st = "WssMidHandshake" ->
              Installed(info, priv_wss_handshake(info.id, io.hs), FALSE)
         [] st = "WssSrvMidHandshake" ->
              Installed(info, priv_wss_srv_handshake(info.id, io.hs), FALSE)
         [] st = "ReadyWs" -> ReadyStep(info, "ReadyWs", io)
         [] OTHER -> ReadyStep(info, "ReadyWss", io)

----------------------------------------------------------------------------
(* priv_process_stream_sockets: the loop over the drained table *)

\* acc: what the loop has built so far
\*   sockets: self.stream_sockets, events: self.event_queue, did_work,
\*   wire: frames written per socket, ok: FALSE once `?` has left the loop,
\*   failed: the socket whose write error `?` returned, consumed: the
\*   sockets a frame was read from
LoopAcc(sockets, events, did_work) ==
    [sockets |-> sockets, events |-> events, did_work |-> did_work, wire |-> EmptyMap,
     ok |-> TRUE, failed |-> NoId, consumed |-> {}]

\* self.stream_sockets.insert(id, info)
Reinsert(acc, id, info) == [acc EXCEPT !.sockets = Insert(acc.sockets, id, info)]

\* a variant in which a Ping that was written counts as activity
Heartbeat_touch(acc, id, info, io) ==
    IF elapsed(info) > DEFAULT_HEARTBEAT_MS
    THEN IF IsReady(info.stateful_socket)
         THEN IF io.ping = "Err"
              THEN [acc EXCEPT !.ok = FALSE, !.failed = id]
              ELSE Reinsert([acc EXCEPT !.wire = PutWire(@, id,
                                (IF id \in DOMAIN @ THEN @[id] ELSE <<>>)
                                    \o <<Frame("Ping", "")>>)],
                            id, [info EXCEPT !.idle = 0])
         ELSE Reinsert(acc, id, info)
    ELSE IF elapsed(info) > DEFAULT_HEARTBEAT_WAIT_MS
    THEN [acc EXCEPT !.events = @ \o <<Closed(info.id)>>]
    ELSE Reinsert(acc, id, info)

\* lines 398-410: the heartbeat policy for a record that is not None
Heartbeat(acc, id, info, io) ==
    IF elapsed(info) > DEFAULT_HEARTBEAT_MS
    THEN IF IsReady(info.stateful_socket)
         THEN IF io.ping = "Err"
              THEN [acc EXCEPT !.ok = FALSE, !.failed = id]
              ELSE Reinsert([acc EXCEPT !.wire = PutWire(@, id,
                                (IF id \in DOMAIN @ THEN @[id] ELSE <<>>)
                                    \o <<Frame("Ping", "")>>)],
                            id, info)
         ELSE Reinsert(acc, id, info)
    ELSE IF elapsed(info) > DEFAULT_HEARTBEAT_WAIT_MS
    THEN [acc EXCEPT !.events = @ \o <<Closed(info.id)>>]
    ELSE Reinsert(acc, id, info)

\* a variant without the `continue` after Closed: the record goes back
\* into the table
LoopBody_no_continue(acc, id, info0, tls, io) ==
    LET r == priv_process_socket(info0, tls, io)
        a1 == [acc EXCEPT
                 !.events = @ \o r.events \o
                     (IF r.err # "" THEN <<TransportErrorEvt(r.info.id, r.err)>>
                      ELSE <<>>),
                 !.did_work = @ \/ r.did_work,
                 !.consumed = IF r.read THEN @ \cup {id} ELSE @,
                 !.wire = PutWire(@, id, r.out)]
    IN IF r.info.stateful_socket = "None"
       THEN Reinsert([a1 EXCEPT !.events = @ \o <<Closed(r.info.id)>>], id, r.info)
       ELSE Heartbeat(a1, id, r.info, io)

\* lines 389-411: the body of the loop for one drained (id, info)
LoopBody(acc, id, info0, tls, io) ==
    LET r == priv_process_socket(info0, tls, io)
        a1 == [acc EXCEPT
                 !.events = @ \o r.events \o
                     (IF r.err # "" THEN <<TransportErrorEvt(r.info.id, r.err)>>
                      ELSE <<>>),
                 !.did_work = @ \/ r.did_work,
                 !.consumed = IF r.read THEN @ \cup {id} ELSE @,
                 !.wire = PutWire(@, id, r.out)]
    IN IF r.info.stateful_socket = "None"
       THEN [a1 EXCEPT !.events = @ \o <<Closed(r.info.id)>>]
       ELSE Heartbeat(a1, id, r.info, io)

\* every way the loop can run over the drained sockets: the HashMap's
\* drain order and each socket's answers are the environment's
RECURSIVE Outcomes(_, _, _, _)
Outcomes(acc, sockets, tls, reads) ==
    IF DOMAIN sockets = {} \/ ~acc.ok THEN {acc}
    ELSE UNION { UNION { Outcomes(LoopBody(acc, id, sockets[id], tls, io),
                                   Remove(sockets, id), tls, reads)
                         : io \in IoChoices(sockets[id], tls, reads) }
                 : id \in DOMAIN sockets }

----------------------------------------------------------------------------
(* The manager's operations *)

\* a call's return value: Ok(()) or Ok(url) ("unit"), Ok(id) ("id"),
\* Ok((did_work, events)) ("tick"), or Err(_) ("err")
Ret(kind, did_work, events, id) ==
    [kind |-> kind, did_work |-> did_work, events |-> events, id |-> id]

OkUnit == Ret("unit", FALSE, <<>>, NoId)

OkId(id) == Ret("id", FALSE, <<>>, id)

OkTick(did_work, events) == Ret("tick", did_work, events, NoId)

Err == Ret("err", FALSE, <<>>, NoId)

\* the error of a write to socket id
ErrAt(id) == Ret("err", FALSE, <<>>, id)

Result(ok) == IF ok THEN OkUnit ELSE Err

EventIds(events, types) ==
    {events[i].id : i \in {j \in 1..Len(events) : events[j].type \in types}}

\* the caller has read the last call's result: what it saw becomes history
Seen ==
    /\ UNCHANGED <<track, watch, crypto_vars, data_vars>>
    /\ h_closed' = ("closed" \in track
                      /\ (h_closed \/ watch \in EventIds(result.events, {"Closed"})))
    /\ h_connected' =
          ("connected" \in track
             /\ (h_connected
                   \/ watch \in EventIds(result.events, {"ConnectResult", "Connection"})))

\* the same, in a call other than wait_connect
Observe == Seen /\ UNCHANGED wc

\* ids handed out in a step are counted
Issue(ids) ==
    h_issued' = IF "issued" \in track
                THEN h_issued + Cardinality({i \in 1..Len(ids) : ids[i] = watch})
                ELSE 0

\* connect returned id
Dial(id) == h_dialed' = ("dialed" \in track /\ (h_dialed \/ id = watch))

\* close(id) returned, for an id the manager had handed out
CloseCalled(id) ==
    h_close_called' =
        ("close_called" \in track
           /\ (h_close_called \/ (id = watch /\ id \in {format_id(k) : k \in 1..(n_id - 1)})))

\* a variant that forgets `*n_id += 1`
next_id_stuck(n) == [out |-> format_id(n), n_id |-> n]

\* ConnectionIdFactory::next_id
next_id(n) == [out |-> format_id(n), n_id |-> n + 1]

\* a variant that draws the id before it calls the stream factory
Connect_id_first(uri, factory_ok) ==
    /\ Observe
    /\ UNCHANGED <<tls_config, event_queue, inbox, acceptor, h_close_called, pair_vars>>
    /\ wire' = EmptyMap
    /\ IF host_str(uri) = "" \/ port(uri) = 0
       THEN /\ result' = Err
            /\ UNCHANGED <<stream_sockets, n_id, h_issued, h_dialed>>
       ELSE LET id == next_id(n_id).out IN
              /\ n_id' = next_id(n_id).n_id
              /\ Issue(<<id>>)
              /\ IF factory_ok
                 THEN /\ stream_sockets' =
                            Insert(stream_sockets, id, WssInfo_new(id, uri, FALSE))
                      /\ result' = OkId(id)
                      /\ Dial(id)
                 ELSE /\ result' = Err
                      /\ UNCHANGED <<stream_sockets, h_dialed>>

\* connect(uri), the stream factory answering factory_ok
Connect(uri, factory_ok) ==
    /\ Observe
    /\ UNCHANGED <<tls_config, event_queue, inbox, acceptor, h_close_called, pair_vars>>
    /\ wire' = EmptyMap
    /\ IF host_str(uri) = "" \/ port(uri) = 0 \/ ~factory_ok
       THEN /\ result' = Err
            /\ UNCHANGED <<stream_sockets, n_id, h_issued, h_dialed>>
       ELSE LET id == next_id(n_id).out IN
              /\ n_id' = next_id(n_id).n_id
              /\ stream_sockets' =
                    Insert(stream_sockets, id, WssInfo_new(id, uri, FALSE))
              /\ result' = OkId(id)
              /\ Issue(<<id>>)
              /\ Dial(id)

\* WssInfo::close, the socket answering cio to close + write_pending
WssInfo_close(info, cio) ==
    IF info.stateful_socket = "ReadyWss"
    THEN IF cio = "Ok" THEN [ok |-> TRUE, out |-> <<Frame("Close", "")>>]
         ELSE [ok |-> FALSE, out |-> <<>>]
    ELSE [ok |-> TRUE, out |-> <<>>]

CloseResults(info) == IF info.stateful_socket = "ReadyWss" THEN {"Ok", "Err"} ELSE {"Ok"}

\* a variant that reports an id it does not know
Close_strict(id) ==
    /\ Observe
    /\ UNCHANGED <<tls_config, event_queue, n_id, inbox, acceptor, h_issued, h_dialed,
                   pair_vars>>
    /\ CloseCalled(id)
    /\ IF id \in DOMAIN stream_sockets
       THEN \E cio \in CloseResults(stream_sockets[id]) :
              LET c == WssInfo_close(stream_sockets[id], cio) IN
                /\ stream_sockets' = Remove(stream_sockets, id)
                /\ wire' = PutWire(EmptyMap, id, c.out)
                /\ result' = Result(c.ok)
       ELSE /\ UNCHANGED stream_sockets
            /\ wire' = EmptyMap
            /\ result' = Err

\* close(id)
\* a variant that keeps the record when its close frame cannot be sent
Close_kept(id) ==
    /\ Observe
    /\ UNCHANGED <<tls_config, event_queue, n_id, inbox, acceptor, h_issued, h_dialed,
                   pair_vars>>
    /\ CloseCalled(id)
    /\ IF id \in DOMAIN stream_sockets
       THEN \E cio \in CloseResults(stream_sockets[id]) :
              LET c == WssInfo_close(stream_sockets[id], cio) IN
                /\ stream_sockets' = IF c.ok THEN Remove(stream_sockets, id)
                                     ELSE stream_sockets
                /\ wire' = PutWire(EmptyMap, id, c.out)
                /\ result' = Result(c.ok)
       ELSE /\ UNCHANGED stream_sockets
            /\ wire' = EmptyMap
            /\ result' = OkUnit

Close(id) ==
    /\ Observe
    /\ UNCHANGED <<tls_config, event_queue, n_id, inbox, acceptor, h_issued, h_dialed,
                   pair_vars>>
    /\ CloseCalled(id)
    /\ IF id \in DOMAIN stream_sockets
       THEN \E cio \in CloseResults(stream_sockets[id]) :
              LET c == WssInfo_close(stream_sockets[id], cio) IN
                /\ stream_sockets' = Remove(stream_sockets, id)
                /\ wire' = PutWire(EmptyMap, id, c.out)
                /\ result' = Result(c.ok)
       ELSE /\ UNCHANGED stream_sockets
            /\ wire' = EmptyMap
            /\ result' = OkUnit

\* a variant that returns at the first record whose close fails
CloseAll_stop ==
    /\ Observe
    /\ UNCHANGED <<tls_config, event_queue, n_id, inbox, acceptor, h_issued, h_dialed,
                   h_close_called, pair_vars>>
    /\ \E failing \in SUBSET {id \in DOMAIN stream_sockets :
                                 stream_sockets[id].stateful_socket = "ReadyWss"} :
         IF failing = {}
         THEN /\ stream_sockets' = EmptyMap
              /\ wire' = [id \in {x \in DOMAIN stream_sockets :
                                        stream_sockets[x].stateful_socket = "ReadyWss"}
                             |-> <<Frame("Close", "")>>]
              /\ result' = OkUnit
         ELSE /\ \E bad \in failing : stream_sockets' = Remove(stream_sockets, bad)
              /\ wire' = EmptyMap
              /\ result' = Err

\* close_all(), the sockets in `failing` answering an error to close
CloseAll ==
    /\ Observe
    /\ UNCHANGED <<tls_config, event_queue, n_id, inbox, acceptor, h_issued, h_dialed,
                   h_close_called, pair_vars>>
    /\ \E failing \in SUBSET {id \in DOMAIN stream_sockets :
                                 stream_sockets[id].stateful_socket = "ReadyWss"} :
         /\ stream_sockets' = EmptyMap
         /\ wire' = [id \in {x \in DOMAIN stream_sockets :
                                   stream_sockets[x].stateful_socket = "ReadyWss"}
                                \ failing |-> <<Frame("Close", "")>>]
         /\ result' = Result(failing = {})

Count(id_list, id) == Cardinality({i \in 1..Len(id_list) : id_list[i] = id})

Repeat(x, n) == [i \in 1..n |-> x]

\* a variant that queues the payload once for an id listed more than once
Enqueued_once(sockets, id_list, payload) ==
    [id \in DOMAIN sockets |->
        [sockets[id] EXCEPT
            !.send_queue = IF Count(id_list, id) > 0 THEN Append(@, payload) ELSE @]]

\* a variant that queues at the front: insert(0, ..) for push(..)
Enqueued_front(sockets, id_list, payload) ==
    [id \in DOMAIN sockets |->
        [sockets[id] EXCEPT !.send_queue = Repeat(payload, Count(id_list, id)) \o @]]

\* the table after send's loop: info.send_queue.push(payload.to_vec()) for
\* each listed id that is in the table
Enqueued(sockets, id_list, payload) ==
    [id \in DOMAIN sockets |->
        [sockets[id] EXCEPT !.send_queue = @ \o Repeat(payload, Count(id_list, id))]]

\* send(id_list, payload)
Send(id_list, payload) ==
    /\ Observe
    /\ stream_sockets' = Enqueued(stream_sockets, id_list, payload)
    /\ result' = OkUnit
    /\ wire' = EmptyMap
    /\ UNCHANGED <<tls_config, event_queue, n_id, inbox, acceptor, h_issued, h_dialed,
                   h_close_called, pair_vars>>

\* send_all(payload)
SendAll(payload) ==
    /\ Observe
    /\ stream_sockets' =
          [id \in DOMAIN stream_sockets |->
              [stream_sockets[id] EXCEPT !.send_queue = Append(@, payload)]]
    /\ result' = OkUnit
    /\ wire' = EmptyMap
    /\ UNCHANGED <<tls_config, event_queue, n_id, inbox, acceptor, h_issued, h_dialed,
                   h_close_called, pair_vars>>

\* bind(url), the binder answering bind_ok
Bind(bind_ok) ==
    /\ Observe
    /\ acceptor' = IF bind_ok THEN "Ok" ELSE acceptor
    /\ result' = Result(bind_ok)
    /\ wire' = EmptyMap
    /\ UNCHANGED <<tls_config, stream_sockets, event_queue, n_id, inbox, h_issued,
                   h_dialed, h_close_called, pair_vars>>

Commands == {"Connect", "Send", "SendAll", "Close", "Bind"}

\* post(command)
Post(command) ==
    /\ Observe
    /\ inbox' = Append(inbox, command)
    /\ result' = OkUnit
    /\ wire' = EmptyMap
    /\ UNCHANGED <<tls_config, stream_sockets, event_queue, n_id, acceptor, h_issued,
                   h_dialed, h_close_called, pair_vars>>

\* priv_process_accept, the listener answering accepted
priv_process_accept(sockets, n, acc, accepted) ==
    IF acc = "Err"
    THEN [sockets |-> sockets, n_id |-> n, did_work |-> FALSE, new |-> <<>>]
    ELSE LET connection_id == next_id(n).out IN
         IF accepted
         THEN [sockets |-> Insert(sockets, connection_id,
                                  WssInfo_new(connection_id, GoodUrl, TRUE)),
               n_id |-> next_id(n).n_id, did_work |-> TRUE,
               new |-> <<connection_id>>]
         ELSE [sockets |-> sockets, n_id |-> next_id(n).n_id, did_work |-> FALSE,
               new |-> <<>>]

\* priv_process_stream_sockets from a manager's fields: every way it can end
priv_process_stream_sockets(sockets, events, n, acc, tls, accepted, reads) ==
    LET a == priv_process_accept(sockets, n, acc, accepted) IN
      {[loop |-> o, n_id |-> a.n_id, new |-> a.new] :
          o \in Outcomes(LoopAcc(EmptyMap, events, a.did_work), a.sockets, tls, reads)}

\* a variant that empties the event queue when it returns an error too
Process_forgetful(accepted) ==
    /\ Observe
    /\ \E o \in priv_process_stream_sockets(stream_sockets, event_queue, n_id,
                                            acceptor, tls_config, accepted,
                                            ReadResults) :
         /\ stream_sockets' = o.loop.sockets
         /\ n_id' = o.n_id
         /\ Issue(o.new)
         /\ wire' = o.loop.wire
         /\ event_queue' = <<>>
         /\ result' = IF o.loop.ok
                       THEN OkTick(o.loop.did_work, o.loop.events)
                       ELSE ErrAt(o.loop.failed)
    /\ UNCHANGED <<tls_config, inbox, acceptor, h_dialed, h_close_called, pair_vars>>

\* process(), the listener answering accepted
Process(accepted) ==
    /\ Observe
    /\ \E o \in priv_process_stream_sockets(stream_sockets, event_queue, n_id,
                                            acceptor, tls_config, accepted,
                                            ReadResults) :
         /\ stream_sockets' = o.loop.sockets
         /\ n_id' = o.n_id
         /\ Issue(o.new)
         /\ wire' = o.loop.wire
         /\ IF o.loop.ok
            THEN /\ event_queue' = <<>>
                 /\ result' = OkTick(o.loop.did_work, o.loop.events)
            ELSE /\ event_queue' = o.loop.events
                 /\ result' = ErrAt(o.loop.failed)
    /\ UNCHANGED <<tls_config, inbox, acceptor, h_dialed, h_close_called, pair_vars>>

\* the clock moves on between two calls
AdvanceTime ==
    /\ Observe
    /\ stream_sockets' =
          [id \in DOMAIN stream_sockets |->
              [stream_sockets[id] EXCEPT !.idle = Clamp(@ + TimeStep)]]
    /\ result' = OkUnit
    /\ wire' = EmptyMap
    /\ UNCHANGED <<tls_config, event_queue, n_id, inbox, acceptor, h_issued, h_dialed,
                   h_close_called, pair_vars>>

----------------------------------------------------------------------------
(* wait_connect: connect, then process polled until the deadline *)

\* not in wait_connect; the locals are those of the last call
WcIdle == [pc |-> "idle", connection_id |-> NoId, waited |-> 0, evt_lst |-> <<>>]

\* a variant that takes the first ConnectResult, whatever its id
wait_match_any(evt_lst, connection_id) ==
    LET idx == {i \in 1..Len(evt_lst) : evt_lst[i].type = "ConnectResult"}
    IN IF idx = {} THEN NoId
       ELSE evt_lst[CHOOSE i \in idx : \A j \in idx : i <= j].id

\* lines 334-343: the id of the first ConnectResult(id) with
\* id == connection_id among the events of one poll, NoId if there is none
wait_match(evt_lst, connection_id) ==
    LET idx == {i \in 1..Len(evt_lst) :
                   evt_lst[i].type = "ConnectResult" /\ evt_lst[i].id = connection_id}
    IN IF idx = {} THEN NoId
       ELSE evt_lst[CHOOSE i \in idx : \A j \in idx : i <= j].id

\* wait_connect(uri) up to the head of its loop: `self.connect(uri)?`
WaitConnectCall(uri, factory_ok) ==
    /\ wc.pc = "idle"
    /\ Seen
    /\ UNCHANGED <<tls_config, event_queue, inbox, acceptor, h_close_called, pair_vars>>
    /\ wire' = EmptyMap
    /\ IF host_str(uri) = "" \/ port(uri) = 0 \/ ~factory_ok
       THEN /\ result' = Err
            /\ UNCHANGED <<stream_sockets, n_id, h_issued, h_dialed, wc>>
       ELSE LET id == next_id(n_id).out IN
              /\ n_id' = next_id(n_id).n_id
              /\ stream_sockets' =
                    Insert(stream_sockets, id, WssInfo_new(id, uri, FALSE))
              /\ Issue(<<id>>)
              /\ Dial(id)
              /\ UNCHANGED result
              /\ wc' = [pc |-> "loop", connection_id |-> id, waited |-> 0,
                        evt_lst |-> <<>>]

\* one round of wait_connect's loop: the deadline test, process()?, the scan
\* of the events, the sleep
WaitPoll(accepted) ==
    /\ wc.pc = "loop"
    /\ Seen
    /\ UNCHANGED <<tls_config, inbox, acceptor, h_dialed, h_close_called, pair_vars>>
    /\ IF ~(wc.waited < DEFAULT_HEARTBEAT_WAIT_MS)
       THEN \* timed out
            /\ result' = Err
            /\ wire' = EmptyMap
            /\ wc' = [wc EXCEPT !.pc = "idle"]
            /\ UNCHANGED <<stream_sockets, event_queue, n_id, h_issued>>
       ELSE \E o \in priv_process_stream_sockets(stream_sockets, event_queue, n_id,
                                                  acceptor, tls_config, accepted,
                                                  ReadResults) :
              /\ n_id' = o.n_id
              /\ Issue(o.new)
              /\ wire' = o.loop.wire
              /\ IF ~o.loop.ok
                 THEN \* process()? returns the error
                      /\ stream_sockets' = o.loop.sockets
                      /\ event_queue' = o.loop.events
                      /\ result' = ErrAt(o.loop.failed)
                      /\ wc' = [wc EXCEPT !.pc = "idle"]
                 ELSE /\ event_queue' = <<>>
                      /\ IF wait_match(o.loop.events, wc.connection_id) # NoId
                         THEN /\ stream_sockets' = o.loop.sockets
                              /\ result' =
                                    OkId(wait_match(o.loop.events, wc.connection_id))
                              /\ wc' = [wc EXCEPT !.pc = "idle",
                                                  !.evt_lst = o.loop.events]
                         ELSE /\ stream_sockets' =
                                    [id \in DOMAIN o.loop.sockets |->
                                        [o.loop.sockets[id] EXCEPT
                                            !.idle = Clamp(@ + PollSleep)]]
                              /\ UNCHANGED result
                              /\ wc' = [wc EXCEPT !.waited = Clamp(@ + PollSleep),
                                                  !.evt_lst = o.loop.events]

----------------------------------------------------------------------------
(* The manager alone, its sockets answered by the environment *)

PairIdle ==
    /\ peers = EmptyMap
    /\ net = EmptyMap
    /\ sent_log = <<>>
    /\ recv_log = <<>>

WatchIds == {format_id(n) : n \in 1..MaxId}

\* the state TransportWss::new builds, recording the history in trk
NewTransport(trk) ==
    /\ tls_config \in TlsConfigs
    /\ stream_sockets = EmptyMap
    /\ event_queue = <<>>
    /\ n_id = 1
    /\ inbox = <<>>
    /\ acceptor = "Err"
    /\ result = OkUnit
    /\ wire = EmptyMap
    /\ track = trk
    /\ watch \in (IF trk = {} THEN {NoId} ELSE WatchIds)
    /\ h_issued = 0
    /\ h_dialed = FALSE
    /\ h_connected = FALSE
    /\ h_closed = FALSE
    /\ h_close_called = FALSE
    /\ wc = WcIdle
    /\ PairIdle

InitTracking(trk) == NewTransport(trk) /\ CryptoIdle /\ DataIdle

Init == InitTracking({})

\* the bounds: the factory's counter, the table's size, the queues' length
IdsLeft == n_id <= MaxId

TableRoom == Cardinality(DOMAIN stream_sockets) < MaxConn

QueueRoom(id_list) ==
    \A id \in DOMAIN stream_sockets :
        Len(stream_sockets[id].send_queue) + Count(id_list, id) <= MaxQueue

SendTargets == DOMAIN stream_sockets \cup {format_id(n_id)}

SendLists == {<<a>> : a \in SendTargets}

DoConnect ==
    \E uri \in Urls, factory_ok \in BOOLEAN :
        /\ IdsLeft /\ TableRoom
        /\ Connect(uri, factory_ok)

DoClose == \E id \in Ids : Close(id)

DoSend == \E id_list \in SendLists : QueueRoom(id_list) /\ Send(id_list, "p1")

DoSendAll == QueueRoom(<<>>) /\ SendAll("p1")

DoBind == \E bind_ok \in BOOLEAN : Bind(bind_ok)

DoProcess ==
    \E accepted \in BOOLEAN :
        /\ acceptor = "Ok" => IdsLeft
        /\ accepted => acceptor = "Ok" /\ TableRoom
        /\ Process(accepted)

\* every operation but post
Next ==
    \/ DoConnect
    \/ DoClose
    \/ CloseAll
    \/ DoSend
    \/ DoSendAll
    \/ DoBind
    \/ DoProcess
    \/ AdvanceTime

Spec == Init /\ [][Next]_vars

\* the connections' lives: every operation but post, send and send_all
NextLife ==
    \/ DoConnect
    \/ DoClose
    \/ CloseAll
    \/ DoBind
    \/ DoProcess
    \/ AdvanceTime

History == {"issued", "dialed", "connected", "closed", "close_called"}

SpecLife == InitTracking(History) /\ [][NextLife]_vars

----------------------------------------------------------------------------
(* post and process *)

DoPost == \E command \in Commands : Len(inbox) < MaxInbox /\ Post(command)

\* the clock stands still: no heartbeat is due
NextInbox ==
    \/ DoPost
    \/ DoConnect
    \/ DoProcess

SpecInbox == Init /\ [][NextInbox]_vars

----------------------------------------------------------------------------
(* connect, send and process with longer queues; the clock stands still *)

\* id lists of one or two entries, repeats and unknown ids included
SendLists2 == SendLists \cup {<<a, b>> : a \in SendTargets, b \in SendTargets}

BacklogRoom(id_list) ==
    \A id \in DOMAIN stream_sockets :
        Len(stream_sockets[id].send_queue) + Count(id_list, id) <= MaxBacklog

DoBacklogSend ==
    \E id_list \in SendLists2, payload \in Payloads :
        /\ BacklogRoom(id_list)
        /\ Send(id_list, payload)

DoDial == n_id <= MaxDials /\ DoConnect

NextSend ==
    \/ DoDial
    \/ DoBacklogSend
    \/ DoProcess

SpecSend == Init /\ [][NextSend]_vars

----------------------------------------------------------------------------
(* wait_connect after connect; the caller is one thread, so no other call  *)
(* is made while wait_connect runs                                         *)

DoWaitConnect ==
    \E uri \in Urls, factory_ok \in BOOLEAN :
        /\ n_id <= MaxDials
        /\ WaitConnectCall(uri, factory_ok)

DoWaitPoll ==
    \E accepted \in BOOLEAN :
        /\ acceptor = "Ok" => IdsLeft
        /\ accepted => acceptor = "Ok" /\ TableRoom
        /\ WaitPoll(accepted)

NotWaiting == wc.pc = "idle"

NextWait ==
    \/ DoWaitConnect
    \/ DoWaitPoll
    \/ NotWaiting /\ DoDial

\* the thread in wait_connect keeps running
SpecWait == Init /\ [][NextWait]_vars /\ WF_vars(DoWaitPoll)

----------------------------------------------------------------------------
(* Two managers, A dialing B, joined by a stream that keeps the order of  *)
(* the frames written to it. The clock stands still: no heartbeat is due. *)

Managers == {"A", "B"}

Other(m) == IF m = "A" THEN "B" ELSE "A"

\* the id each side has given the connection
PairId == format_id(1)

\* after A's connect(url) has returned and B's acceptor has attached the
\* inbound socket
PairInit ==
    /\ tls_config \in TlsConfigs
    /\ stream_sockets = EmptyMap
    /\ event_queue = <<>>
    /\ n_id = 2
    /\ inbox = <<>>
    /\ acceptor = "Err"
    /\ result = OkUnit
    /\ wire = EmptyMap
    /\ track = {}
    /\ watch = NoId
    /\ h_issued = 0
    /\ h_dialed = FALSE
    /\ h_connected = FALSE
    /\ h_closed = FALSE
    /\ h_close_called = FALSE
    /\ wc = WcIdle
    /\ CryptoIdle
    /\ DataIdle
    /\ peers = [m \in Managers |->
                  [stream_sockets |->
                       Insert(EmptyMap, PairId, WssInfo_new(PairId, GoodUrl, m = "B")),
                   event_queue |-> <<>>]]
    /\ net = [m \in Managers |-> <<>>]
    /\ sent_log = <<>>
    /\ recv_log = <<>>

\* what m's socket answers a read: the next frame in flight, nothing yet,
\* or an error
PairReads(m) ==
    {Frame("WouldBlock", ""), Frame("IoError", ""), Frame("ConnectionClosed", "")}
    \cup (IF net[m] = <<>> THEN {} ELSE {Head(net[m])})

InTable(m) == PairId \in DOMAIN peers[m].stream_sockets

\* A's send(&[id], payload)
PairSend(payload) ==
    /\ peers' = [peers EXCEPT !["A"].stream_sockets = Enqueued(@, <<PairId>>, payload)]
    /\ sent_log' =
          IF InTable("A")
          THEN Append(sent_log,
                      [data |-> payload,
                       staged |-> ~IsReady(peers["A"].stream_sockets[PairId]
                                               .stateful_socket)])
          ELSE sent_log
    /\ UNCHANGED <<mgr_vars, obs_vars, crypto_vars, data_vars, net, recv_log>>

ReceivedData(events) ==
    LET idx == {i \in 1..Len(events) : events[i].type = "Received"}
    IN IF idx = {} THEN <<>> ELSE <<events[CHOOSE i \in idx : TRUE].data>>

\* m's process(); B's listener has no further socket to hand out
PairProcess(m) ==
    \E o \in priv_process_stream_sockets(peers[m].stream_sockets, peers[m].event_queue,
                                         n_id, IF m = "B" THEN "Ok" ELSE "Err",
                                         tls_config, FALSE, PairReads(m)) :
      LET written == IF PairId \in DOMAIN o.loop.wire THEN o.loop.wire[PairId] ELSE <<>>
      IN /\ peers' = [peers EXCEPT
                        ![m] = [stream_sockets |-> o.loop.sockets,
                                event_queue |-> IF o.loop.ok THEN <<>>
                                                ELSE o.loop.events]]
         /\ net' = [net EXCEPT
                      ![m] = IF o.loop.consumed = {} THEN @ ELSE Tail(@),
                      ![Other(m)] = @ \o written]
         /\ recv_log' = IF m = "B" /\ o.loop.ok
                        THEN recv_log \o ReceivedData(o.loop.events)
                        ELSE recv_log
         /\ UNCHANGED <<mgr_vars, obs_vars, crypto_vars, data_vars,
                        sent_log>>

\* a tick of m that no socket error ends and in which a Ready socket
\* delivers the next frame in flight
PairDeliver(m) ==
    /\ PairProcess(m)
    /\ PairId \in DOMAIN peers'[m].stream_sockets
    /\ (IsReady(peers[m].stream_sockets[PairId].stateful_socket) /\ net[m] # <<>>)
          => net'[m] = Tail(net[m])

DoPairSend == \E payload \in Payloads : Len(sent_log) < MaxSent /\ PairSend(payload)

NextPair ==
    \/ DoPairSend
    \/ PairProcess("A")
    \/ PairProcess("B")

SpecPair == PairInit /\ [][NextPair]_vars

\* both sides keep being ticked, and a stream that does not fail delivers
\* what is in flight
SpecPairFair ==
    SpecPair /\ WF_vars(PairDeliver("A")) /\ WF_vars(PairDeliver("B"))

----------------------------------------------------------------------------
(* Properties of the manager *)

ReturnedIds(types) == EventIds(result.events, types)

RECURSIVE Data(_)
Data(log) == IF log = <<>> THEN <<>> ELSE <<Head(log).data>> \o Data(Tail(log))

IsPrefix(s, t) == Len(s) <= Len(t) /\ \A i \in 1..Len(s) : s[i] = t[i]

\* the events a process step appended: to the vector it returned, or, when
\* it returned an error, to the queue it left behind
NewEvents ==
    LET all == IF result'.kind = "tick" THEN result'.events ELSE event_queue'
    IN SubSeq(all, Len(event_queue) + 1, Len(all))

InSeq(x, seq) == \E i \in 1..Len(seq) : seq[i] = x

\* what the record under id can be after its own step of a tick
OwnSteps(id) ==
    {priv_process_socket(stream_sockets[id], tls_config, io).info :
        io \in IoChoices(stream_sockets[id], tls_config, ReadResults)}

\* C1: in a tick every record that was in the table, is not terminal
\* (no Closed for it) and is not the record whose write failed is still in
\* the table, as its own step left it
SiblingsUnaffected ==
    [][DoProcess =>
         \A id \in DOMAIN stream_sockets :
             \/ InSeq(Closed(id), NewEvents)
             \/ result'.kind = "err" /\ result'.id = id
             \/ /\ id \in DOMAIN stream_sockets'
                /\ stream_sockets'[id] \in OwnSteps(id)]_vars

\* C2: a record that is Ready and has been silent for longer than
\* DEFAULT_HEARTBEAT_WAIT_MS when process is called either receives a frame
\* in that tick or leaves the table with a Closed event
IdleReaped ==
    [][DoProcess /\ result'.kind = "tick" =>
         \A id \in DOMAIN stream_sockets :
             /\ IsReady(stream_sockets[id].stateful_socket)
             /\ elapsed(stream_sockets[id]) > DEFAULT_HEARTBEAT_WAIT_MS
             => \/ /\ id \in DOMAIN stream_sockets'
                   /\ elapsed(stream_sockets'[id]) = 0
                \/ /\ id \notin DOMAIN stream_sockets'
                   /\ InSeq(Closed(id), NewEvents)]_vars

\* C3: an event of the watched id is returned only if no earlier process
\* call returned its Closed and no Closed of it precedes the event in the
\* returned vector
ClosedIsLast ==
    \A i \in 1..Len(result.events) :
        result.events[i].id = watch =>
            /\ ~h_closed
            /\ \A j \in 1..(i - 1) : result.events[j] # Closed(watch)

ClosedThenTicked ==
    /\ h_closed
    /\ result.kind = "tick"
    /\ result.events # <<>>
    /\ stream_sockets # EmptyMap

\* C4: once close(watch) has returned, process returns no event of watch
NoEventAfterClose ==
    h_close_called => watch \notin ReturnedIds({"ConnectResult", "Connection",
                                                "Received", "Closed", "TransportError"})

CountIn(events, e) == Cardinality({i \in 1..Len(events) : events[i] = e})

\* C5: over all process calls so far, ConnectResult(watch) has been returned
\* at most once
AtMostOneConnectResult ==
    CountIn(result.events, ConnectResult(watch)) + (IF h_connected THEN 1 ELSE 0) <= 1

ConnectedThenTicked ==
    /\ h_dialed
    /\ h_connected
    /\ watch \in DOMAIN stream_sockets
    /\ result.kind = "tick"
    /\ result.events # <<>>

\* C6: a Received of the watched id is returned only after its handshake
\* event, which is ConnectResult for a dialed id and Connection for an
\* accepted one
HandshakeBeforeReceived ==
    \A i \in 1..Len(result.events) :
        LET e == result.events[i] IN
        e.id = watch =>
            /\ e.type = "ConnectResult" => h_dialed
            /\ e.type = "Connection" => ~h_dialed
            /\ e.type = "Received" =>
                  \/ h_connected
                  \/ \E j \in 1..(i - 1) :
                        result.events[j] \in {ConnectResult(watch), Connection(watch)}

ReceivedAfterHandshake ==
    /\ ~h_dialed
    /\ h_connected
    /\ \E i \in 1..Len(result.events) :
          result.events[i].id = watch /\ result.events[i].type = "Received"

\* C10: no id is handed out twice, by connect or by the acceptor
IdsNeverReused == h_issued <= 1

IssuedAfterClose ==
    /\ h_issued = 1
    /\ h_close_called
    /\ watch \notin DOMAIN stream_sockets
    /\ stream_sockets # EmptyMap
    /\ n_id > MaxId

----------------------------------------------------------------------------
(* Properties of one tick *)

\* the loop body applied to the record under id, its socket answering io
StepOf(id, io) ==
    LoopBody(LoopAcc(EmptyMap, <<>>, FALSE), id, stream_sockets[id], tls_config, io)

Answers(id) == IoChoices(stream_sockets[id], tls_config, ReadResults)

\* C11: when process has returned, an id is in the table iff its record is
\* not terminal: no record in the table has stage None, and every record
\* the tick took out of the table is terminal (the tick emitted its Closed)
TableIffNotTerminal ==
    [][DoProcess =>
         /\ \A id \in DOMAIN stream_sockets' :
                stream_sockets'[id].stateful_socket # "None"
         /\ \A id \in DOMAIN stream_sockets \ DOMAIN stream_sockets' :
                InSeq(Closed(id), NewEvents)]_vars

\* C12: when the handshake driver of a record answers a fatal error, the
\* tick emits exactly one TransportError for the record, then its Closed,
\* and does not put the record back into the table
FatalHandshakeEnds ==
    \A id \in DOMAIN stream_sockets :
        \A io \in Answers(id) :
            (~IsReady(stream_sockets[id].stateful_socket) /\ io.hs = "Fatal") =>
                /\ StepOf(id, io).events =
                      <<TransportErrorEvt(id, "handshake"), Closed(id)>>
                /\ id \notin DOMAIN StepOf(id, io).sockets

\* the watched id failed before its handshake was done
HandshakeFailed ==
    /\ ~h_connected
    /\ watch \notin DOMAIN stream_sockets
    /\ result.kind = "tick"
    /\ CountIn(result.events, TransportErrorEvt(watch, "handshake")) = 1
    /\ ~InSeq(ConnectResult(watch), result.events)
    /\ ~InSeq(Connection(watch), result.events)

\* C13: when the read of a Ready record reports the peer's close frame or a
\* reset connection, the tick emits Closed for the record and no
\* TransportError
PeerClosedReads == {Frame("ConnectionClosed", ""), Frame("ConnectionReset", "")}

PeerClosedEmitsClosed ==
    \A id \in DOMAIN stream_sockets :
        \A io \in Answers(id) :
            (IsReady(stream_sockets[id].stateful_socket) /\ io.wfail = 0
               /\ io.rd \in PeerClosedReads) =>
                /\ InSeq(Closed(id), StepOf(id, io).events)
                /\ id \notin EventIds(StepOf(id, io).events, {"TransportError"})

\* process has returned Ok: no other call returns a (did_work, events) pair
Ticked == result'.kind = "tick"

\* the payloads the step wrote to socket id
WrittenData(id) ==
    IF id \in DOMAIN wire'
    THEN Data(SelectSeq(wire'[id], LAMBDA f : f.kind = "Binary"))
    ELSE <<>>

\* C14: a record that survives a tick has lost nothing: if it was Ready its
\* whole queue was written, in order, and otherwise its queue is untouched.
\* A record whose write failed is gone with the payloads not yet written:
\* what was written is a prefix of its queue and it has left the table, so
\* no later tick writes the rest.
WriteFailureLosesQueue ==
    [][Ticked =>
         \A id \in DOMAIN stream_sockets :
             LET info == stream_sockets[id] IN
             IF id \in DOMAIN stream_sockets'
             THEN IF IsReady(info.stateful_socket)
                  THEN /\ WrittenData(id) = info.send_queue
                       /\ stream_sockets'[id].send_queue = <<>>
                  ELSE /\ WrittenData(id) = <<>>
                       /\ stream_sockets'[id].send_queue = info.send_queue
             ELSE /\ IsPrefix(WrittenData(id), info.send_queue)
                  /\ InSeq(Closed(id), NewEvents)]_vars

\* a write failed after one payload was written, and a sibling goes on
WriteFailedMidQueue ==
    \E id \in DOMAIN wire :
        /\ id \notin DOMAIN stream_sockets
        /\ Len(wire[id]) = 1
        /\ InSeq(TransportErrorEvt(id, "write"), result.events)
        /\ \E other \in DOMAIN stream_sockets :
              stream_sockets[other].send_queue # <<>>

----------------------------------------------------------------------------
(* Properties of close, close_all, connect and send *)

\* C15: close(id) of a record in the table removes it; for a Ready record
\* (ReadyWs or ReadyWss) it tries to send a close frame, which is written
\* or fails with an error, and for any other record it writes nothing
CloseSendsCloseFrame ==
    [][\A id \in DOMAIN stream_sockets :
          Close(id) =>
              /\ stream_sockets' = Remove(stream_sockets, id)
              /\ IF IsReady(stream_sockets[id].stateful_socket)
                 THEN \/ id \in DOMAIN wire' /\ wire'[id] = <<Frame("Close", "")>>
                      \/ result'.kind = "err"
                 ELSE wire' = EmptyMap]_vars

\* C16: close(id) for an id that is not in the table (never there, or
\* closed before) returns Ok, writes nothing and leaves the table, the
\* queues, the inbox and the event outbox as they were
CloseIdempotent ==
    [][\A id \in Ids :
          (id \notin DOMAIN stream_sockets /\ Close(id)) =>
              /\ result' = OkUnit
              /\ wire' = EmptyMap
              /\ UNCHANGED <<stream_sockets, event_queue, inbox, n_id>>]_vars

\* close(watch) has returned although the record of watch had already left
\* the table with its Closed event
ClosedAgain ==
    /\ h_closed
    /\ h_close_called
    /\ result = OkUnit
    /\ stream_sockets # EmptyMap

ConnectErrorChangesNothing ==
    [][\A uri \in Urls, factory_ok \in BOOLEAN :
          (Connect(uri, factory_ok)
             /\ (host_str(uri) = "" \/ port(uri) = 0 \/ ~factory_ok)) =>
              /\ result' = Err
              /\ UNCHANGED <<stream_sockets, n_id, event_queue, inbox>>]_vars

\* a connect has failed after another had succeeded
ConnectFailedAfterDial ==
    /\ result = Err
    /\ n_id = 2
    /\ DOMAIN stream_sockets = {format_id(1)}

\* C19: send(id_list, payload) returns Ok, keeps the table's keys and the
\* event outbox, appends the payload to the queue of each listed id in the
\* table once per occurrence, and changes nothing else of any record
SendAppendsPerOccurrence ==
    [][\A id_list \in SendLists2, payload \in Payloads :
          Send(id_list, payload) =>
              /\ result' = OkUnit
              /\ UNCHANGED <<event_queue, n_id, inbox>>
              /\ DOMAIN stream_sockets' = DOMAIN stream_sockets
              /\ \A id \in DOMAIN stream_sockets :
                    stream_sockets'[id] =
                        [stream_sockets[id] EXCEPT
                            !.send_queue = @ \o Repeat(payload, Count(id_list, id))]]_vars

\* one record was sent the same payload twice, another nothing
SentTwiceToOne ==
    /\ result = OkUnit
    /\ \E a \in DOMAIN stream_sockets, b \in DOMAIN stream_sockets :
          /\ Len(stream_sockets[a].send_queue) = 2
          /\ stream_sockets[a].send_queue[1] = stream_sockets[a].send_queue[2]
          /\ stream_sockets[b].send_queue = <<>>

----------------------------------------------------------------------------
(* Properties of wait_connect *)

\* C20: wait_connect ends. It returns Ok(id) exactly when a process it
\* polled before the deadline yielded ConnectResult for the id its own
\* connect returned, and that id is what it returns; otherwise it goes on
\* polling until the deadline and returns an error.
WaitConnectReturns ==
    /\ (wc.pc = "loop") ~> (wc.pc = "idle")
    /\ [][wc.pc = "loop" =>
            LET own == ConnectResult(wc.connection_id)
                before == wc.waited < DEFAULT_HEARTBEAT_WAIT_MS
            IN IF wc'.pc = "idle"
               THEN /\ result'.kind \in {"id", "err"}
                    /\ result'.kind = "id" <=>
                          (before /\ wc'.evt_lst # wc.evt_lst /\ InSeq(own, wc'.evt_lst))
                    /\ result'.kind = "id" => result'.id = wc.connection_id
               ELSE /\ before
                    /\ ~InSeq(own, wc'.evt_lst)
                    /\ wc'.waited > wc.waited]_vars

\* wait_connect has returned its id from a poll later than the first, in
\* which another connection was reported too
WaitedAndConnected ==
    /\ wc.pc = "idle"
    /\ wc.waited > 0
    /\ result = OkId(wc.connection_id)
    /\ \E i \in 1..Len(wc.evt_lst) :
          wc.evt_lst[i].type = "ConnectResult" /\ wc.evt_lst[i].id # wc.connection_id

----------------------------------------------------------------------------
(* Properties of post *)

\* C9: the commands handed to post are drained, oldest first, by the next
\* process: when process has returned the inbox is empty.
InboxDrainedByProcess == result.kind = "tick" => inbox = <<>>

----------------------------------------------------------------------------
(* Properties of one tick: stages, last activity, order of the events *)

\* the stages one call of a handshake driver can leave a record of stage st
\* in: the same suspended stage, the stage after it, or None
Advance(st) ==
    CASE st = "Connecting" ->
            {"TlsMidHandshake", "TlsReady", "WsMidHandshake", "ReadyWs", "None"}
      [] st = "ConnectingSrv" ->
            {"TlsSrvMidHandshake", "TlsSrvReady", "WsSrvMidHandshake", "ReadyWs",
             "None"}
      [] st = "TlsMidHandshake" -> {"TlsMidHandshake", "TlsReady", "None"}
      [] st = "TlsSrvMidHandshake" -> {"TlsSrvMidHandshake", "TlsSrvReady", "None"}
      [] st = "TlsReady" -> {"WssMidHandshake", "ReadyWss", "None"}
      [] st = "TlsSrvReady" -> {"WssSrvMidHandshake", "ReadyWss", "None"}
      [] st = "WsMidHandshake" -> {"WsMidHandshake", "ReadyWs", "None"}
      [] st = "WsSrvMidHandshake" -> {"WsSrvMidHandshake", "ReadyWs", "None"}
      [] st = "WssMidHandshake" -> {"WssMidHandshake", "ReadyWss", "None"}
      [] st = "WssSrvMidHandshake" -> {"WssSrvMidHandshake", "ReadyWss", "None"}
      [] OTHER -> {st, "None"}

TlsDone == {"TlsReady", "TlsSrvReady"}

\* the stage of the record of id after the step (None once it has left)
StageAfter(id, io) ==
    IF id \in DOMAIN StepOf(id, io).sockets
    THEN StepOf(id, io).sockets[id].stateful_socket
    ELSE "None"

\* C28: in one tick a record makes at most one stage transition, except
\* that a TLS handshake that completes is followed in the same tick by the
\* WebSocket handshake: the record never ends a tick it was stepped in in
\* TlsReady or TlsSrvReady
OneStagePerTick ==
    \A id \in DOMAIN stream_sockets :
        \A io \in Answers(id) :
            LET st == stream_sockets[id].stateful_socket
                one == Advance(st)
                two == UNION {Advance(mid) : mid \in one \cap TlsDone}
            IN /\ StageAfter(id, io) \in one \cup two
               /\ StageAfter(id, io) \notin TlsDone

\* what the step of id under io did that the last-activity time is to record
Progressed(id, io) ==
    LET info == stream_sockets[id]
        st == info.stateful_socket
    IN IF IsReady(st)
       THEN io.wfail = 0
              /\ \/ info.send_queue # <<>>
                 \/ io.rd.kind \in {"Pong", "Binary", "Text"}
       ELSE StageAfter(id, io) # st

\* C29: a record that has read a frame, written a queued payload or
\* advanced its stage in a tick has its last activity at the time of the
\* tick
LastActivityOnProgress ==
    \A id \in DOMAIN stream_sockets :
        \A io \in Answers(id) :
            (id \in DOMAIN StepOf(id, io).sockets /\ Progressed(id, io)) =>
                elapsed(StepOf(id, io).sockets[id]) = 0

\* C30: in the events one process returns the Connection events come first
\* and no Closed(id) comes before an event of another connection that is
\* not a Closed
EventsInCausalOrder ==
    result.kind = "tick" =>
        \A i \in 1..Len(result.events), j \in 1..Len(result.events) :
            i < j =>
                /\ result.events[j].type = "Connection" =>
                      result.events[i].type = "Connection"
                /\ (result.events[i].type = "Closed"
                      /\ result.events[j].type # "Closed") =>
                      result.events[i].id = result.events[j].id

----------------------------------------------------------------------------
(* Properties of the acceptor, the heartbeat and the loop's exits *)

\* every way a process call can end when the listener hands over a socket
TicksAccepting ==
    priv_process_stream_sockets(stream_sockets, event_queue, n_id, acceptor,
                                tls_config, TRUE, ReadResults)

\* C31: a process call polls the acceptor once, for at most one new record,
\* and steps that record in the same call: when the call is over the record
\* is in the table in a stage other than ConnectingSrv, or its step has
\* ended it and its Closed was emitted
AcceptedSteppedSameTick ==
    (acceptor = "Ok" /\ IdsLeft /\ TableRoom) =>
        \A o \in TicksAccepting :
            /\ Len(o.new) = 1
            /\ LET id == o.new[1] IN
               IF id \in DOMAIN o.loop.sockets
               THEN o.loop.sockets[id].stateful_socket # "ConnectingSrv"
               ELSE InSeq(Closed(id), o.loop.events)

\* the frames the step of id under io wrote to its socket
FramesOf(id, io) ==
    IF id \in DOMAIN StepOf(id, io).wire THEN StepOf(id, io).wire[id] ELSE <<>>

\* C32: a record that is Ready when its step of the tick is over and has
\* then been silent for more than DEFAULT_HEARTBEAT_MS has a Ping with an
\* empty payload written to its socket, last of the tick's frames, and the
\* written Ping leaves its last activity where it was; a Ready record that
\* has not been silent that long is written no Ping
HeartbeatPing ==
    \A id \in DOMAIN stream_sockets :
        \A io \in Answers(id) :
            LET stepped == priv_process_socket(stream_sockets[id], tls_config, io).info
                frames == FramesOf(id, io)
            IN (IsReady(stepped.stateful_socket) /\ io.ping = "Ok") =>
                  /\ id \in DOMAIN StepOf(id, io).sockets
                  /\ StepOf(id, io).sockets[id] = stepped
                  /\ IF elapsed(stepped) > DEFAULT_HEARTBEAT_MS
                     THEN /\ frames # <<>>
                          /\ frames[Len(frames)] = Frame("Ping", "")
                     ELSE ~InSeq(Frame("Ping", ""), frames)

\* a tick has written a queued payload and then a Ping to a record that
\* stays silent
PingedWhileSilent ==
    /\ result.kind = "tick"
    /\ \E id \in DOMAIN wire \cap DOMAIN stream_sockets :
          /\ Len(wire[id]) = 2
          /\ wire[id][1].kind = "Binary"
          /\ wire[id][2] = Frame("Ping", "")
          /\ IsReady(stream_sockets[id].stateful_socket)
          /\ elapsed(stream_sockets[id]) > DEFAULT_HEARTBEAT_MS

\* process has returned, Ok or with the error of a socket
Processed == result'.kind = "tick" \/ (result'.kind = "err" /\ result'.id # NoId)

\* C33: an id that was in the table when process was called and is not in
\* it when process has returned, Ok or Err, had its Closed emitted by that
\* call
DroppedOnlyWithClosed ==
    [][Processed =>
         \A id \in DOMAIN stream_sockets \ DOMAIN stream_sockets' :
             InSeq(Closed(id), NewEvents)]_vars

\* C34: an event pushed to the event queue is returned by exactly one
\* process call: a process that returns Ok returns what the queue held
\* followed by what it pushed and leaves the queue empty, a process that
\* returns Err returns nothing and leaves what the queue held followed by
\* what it pushed (the ConnectResult or Connection of the record whose Ping
\* failed, when its handshake was completed in that call), and no other
\* call touches the queue
EventsReturnedOnce ==
    [][IF Processed
       THEN IF result'.kind = "tick"
            THEN /\ IsPrefix(event_queue, result'.events)
                 /\ event_queue' = <<>>
            ELSE /\ IsPrefix(event_queue, event_queue')
                 /\ result'.events = <<>>
                 /\ ~IsReady(stream_sockets[result'.id].stateful_socket) =>
                       \/ InSeq(ConnectResult(result'.id), NewEvents)
                       \/ InSeq(Connection(result'.id), NewEvents)
       ELSE /\ event_queue' = event_queue
            /\ result'.events = <<>>]_vars

\* a process has returned, first of its events, the ConnectResult that a
\* process that returned Err had left in the queue, its record being gone
StaleEventsReturned ==
    /\ result.kind = "tick"
    /\ Len(result.events) >= 2
    /\ result.events[1].type = "ConnectResult"
    /\ result.events[1].id \notin DOMAIN stream_sockets
    /\ ~InSeq(Closed(result.events[1].id), result.events)

\* the stages in which a handshake is resumed tick after tick
MidHandshake ==
    {"TlsMidHandshake", "TlsSrvMidHandshake", "WsMidHandshake",
     "WsSrvMidHandshake", "WssMidHandshake", "WssSrvMidHandshake"}

\* C35: a process call ends a record parked in a MidHandshake stage only
\* through a fatal handshake error: unless the call emits a TransportError
\* for it or fails on a write to it (its handshake then was completed), the
\* record is in the table afterwards, in its stage or the next, and no
\* Closed is emitted for it
MidHandshakeNeverTerminated ==
    [][Processed =>
         \A id \in DOMAIN stream_sockets :
             /\ stream_sockets[id].stateful_socket \in MidHandshake
             /\ id \notin EventIds(NewEvents, {"TransportError"})
             /\ result'.id # id
             => /\ id \in DOMAIN stream_sockets'
                /\ stream_sockets'[id].stateful_socket
                      \in Advance(stream_sockets[id].stateful_socket) \ {"None"}
                /\ ~InSeq(Closed(id), NewEvents)]_vars

\* the stages of a dialed record and those of an accepted one
ClientStages ==
    {"None", "Connecting", "TlsMidHandshake", "TlsReady", "WsMidHandshake",
     "WssMidHandshake", "ReadyWs", "ReadyWss"}

ServerStages ==
    {"None", "ConnectingSrv", "TlsSrvMidHandshake", "TlsSrvReady",
     "WsSrvMidHandshake", "WssSrvMidHandshake", "ReadyWs", "ReadyWss"}

\* the stages that wrap a TLS stream and those that wrap the bare stream
TlsStages ==
    {"TlsMidHandshake", "TlsSrvMidHandshake", "TlsReady", "TlsSrvReady",
     "WssMidHandshake", "WssSrvMidHandshake", "ReadyWss"}

PlainStages == {"WsMidHandshake", "WsSrvMidHandshake", "ReadyWs"}

\* the place of a stage in the sequence a record goes through
StageRank(st) ==
    CASE st \in {"Connecting", "ConnectingSrv"} -> 1
      [] st \in {"TlsMidHandshake", "TlsSrvMidHandshake"} -> 2
      [] st \in TlsDone -> 3
      [] st \in {"WsMidHandshake", "WsSrvMidHandshake", "WssMidHandshake",
                 "WssSrvMidHandshake"} -> 4
      [] IsReady(st) -> 5
      [] OTHER -> 6

StagesConsistent ==
    /\ \A id \in DOMAIN stream_sockets :
          stream_sockets[id].stateful_socket
              \notin (IF tls_config = "Unencrypted" THEN TlsStages ELSE PlainStages)
    /\ watch \in DOMAIN stream_sockets =>
          stream_sockets[watch].stateful_socket
              \in (IF h_dialed THEN ClientStages ELSE ServerStages)

StagesMonotone ==
    \A id \in DOMAIN stream_sockets \cap DOMAIN stream_sockets' :
        LET st == stream_sockets[id].stateful_socket
            nxt == stream_sockets'[id].stateful_socket
        IN /\ StageRank(nxt) >= StageRank(st)
           /\ IsReady(st) => nxt \in {st, "None"}

\* C36: a dialed record is only ever in client stages and an accepted one
\* in server stages; no record is in a TLS stage under Unencrypted or in a
\* plain websocket stage under TLS; no step moves a record back to an
\* earlier stage, and a Ready record stays in its Ready stage or goes to None
StageDiscipline == []StagesConsistent /\ [][StagesMonotone]_vars

AcceptedReadyOverTls ==
    /\ tls_config # "Unencrypted"
    /\ watch \in DOMAIN stream_sockets
    /\ ~h_dialed
    /\ stream_sockets[watch].stateful_socket = "ReadyWss"

\* the stages whose arm sets *did_work
WorkStages == {"Connecting", "ConnectingSrv", "TlsReady", "TlsSrvReady"}

\* the socket answers io in which the read of a Ready record returns a frame
FrameRead(id, io) ==
    /\ IsReady(stream_sockets[id].stateful_socket)
    /\ io.wfail \notin 1..Len(stream_sockets[id].send_queue)
    /\ io.rd.kind \in {"Pong", "Binary", "Text"}

\* one record's step does work exactly when it starts in one of the four
\* stages or its read returns a frame
RecordDidWork ==
    \A id \in DOMAIN stream_sockets :
        \A io \in Answers(id) :
            StepOf(id, io).did_work
                <=> \/ stream_sockets[id].stateful_socket \in WorkStages
                    \/ FrameRead(id, io)

\* what a process call that returns Ok shows of the work it did: the id it
\* gave to an accepted connection is in the table or in its events, a record
\* was in one of the four stages, a Received was pushed, or a Ready record's
\* last activity was set to now
WorkShown ==
    \/ format_id(n_id) \in DOMAIN stream_sockets'
    \/ format_id(n_id) \in EventIds(NewEvents, {"TransportError", "Closed"})
    \/ \E id \in DOMAIN stream_sockets :
          stream_sockets[id].stateful_socket \in WorkStages
    \/ EventIds(NewEvents, {"Received"}) # {}

WorkPossible ==
    \/ WorkShown
    \/ \E id \in DOMAIN stream_sockets \cap DOMAIN stream_sockets' :
          /\ IsReady(stream_sockets[id].stateful_socket)
          /\ stream_sockets'[id].idle = 0

\* C37: process returns did_work = true exactly when the acceptor yielded a
\* connection, a record was stepped from Connecting, ConnectingSrv, TlsReady
\* or TlsSrvReady, or a read on a Ready record returned a frame
DidWorkExact ==
    /\ []RecordDidWork
    /\ [][Ticked => /\ WorkShown => result'.did_work
                    /\ result'.did_work => WorkPossible]_vars

IdleTickWithEvents ==
    /\ result.kind = "tick"
    /\ ~result.did_work
    /\ EventIds(result.events, {"Closed"}) # {}
    /\ \E id \in DOMAIN wire : InSeq(Frame("Ping", ""), wire[id])

\* C38: close(id) removes the record of id whether or not the close frame
\* could be sent: after the call, Ok or Err, id is not in the table and
\* every other record is as it was; the call returns Err only for a record
\* that was in ReadyWss
CloseRemovesOnError ==
    [][\A id \in Ids :
         Close(id) =>
             /\ id \notin DOMAIN stream_sockets'
             /\ \A other \in DOMAIN stream_sockets \ {id} :
                   /\ other \in DOMAIN stream_sockets'
                   /\ stream_sockets'[other] = stream_sockets[other]
             /\ DOMAIN stream_sockets' \subseteq DOMAIN stream_sockets
             /\ result'.kind = "err" =>
                   /\ id \in DOMAIN stream_sockets
                   /\ stream_sockets[id].stateful_socket = "ReadyWss"]_vars

ClosedWithError ==
    /\ result = Err
    /\ h_close_called
    /\ h_connected
    /\ tls_config # "Unencrypted"
    /\ watch \notin DOMAIN stream_sockets
    /\ stream_sockets # EmptyMap

\* C39: what the process calls made inside wait_connect produce is consumed
\* there: a round of its loop hands no event to the caller and leaves in
\* the outbox no event that was not there before, other than the awaited
\* ConnectResult, so that no later process call returns one
WaitConnectConsumes ==
    [][wc.pc = "loop" =>
         /\ result'.events = <<>>
         /\ \/ event_queue' = <<>>
            \/ /\ IsPrefix(event_queue, event_queue')
               /\ \A i \in (Len(event_queue) + 1)..Len(event_queue') :
                     event_queue'[i] = ConnectResult(wc.connection_id)]_vars

----------------------------------------------------------------------------
(* Properties of two managers *)

\* both ends have finished their handshakes and hold the connection
Linked ==
    \A m \in Managers :
        /\ InTable(m)
        /\ IsReady(peers[m].stream_sockets[PairId].stateful_socket)

\* C7: a payload A sends on a connection both ends hold Ready is eventually
\* returned to B as Received with exactly those bytes, unless the connection
\* is lost.
RoundTrip ==
    \A k \in 1..MaxSent :
        (Linked /\ Len(sent_log) >= k)
            ~> (\/ Len(recv_log) >= k /\ recv_log[k] = sent_log[k].data
                \/ ~Linked)

DeliveredWhileLinked ==
    /\ Linked
    /\ Len(recv_log) >= 2
    /\ ~sent_log[2].staged
    /\ recv_log[2] = sent_log[2].data

\* C8: the payloads sent on one connection, those queued during the handshake
\* included, are written in the order of the sends and B receives them in
\* that order: what B has received followed by what is in flight is a prefix
\* of what A sent, and A's queue holds the rest.
FifoPerConnection ==
    LET onward == recv_log \o Data(net["B"])
    IN /\ IsPrefix(onward, Data(sent_log))
       /\ InTable("A") =>
            onward \o peers["A"].stream_sockets[PairId].send_queue = Data(sent_log)

StagedPairReceived ==
    /\ Len(recv_log) >= 2
    /\ recv_log[1] # recv_log[2]
    /\ sent_log[1].staged
    /\ sent_log[2].staged

----------------------------------------------------------------------------
(* The crypto API's buffers: InsecureBuffer behind the Buffer trait *)

\* buffers a client makes, bytes in one of them, values a client writes
MaxBufs == 2
MaxBufLen == 2
MaxByte == 1

ProtectStates == {"NoAccess", "ReadOnly", "ReadWrite"}

Zeros(n) == [i \in 1..n |-> 0]

\* InsecureBuffer { b, p }: b is the address of the boxed slice; from is the
\* buffer its bytes were made from (a clone's source, a key's seed, a
\* signature's message; itself when its client wrote them), kept for the
\* record
InsecureBuffer(at, p, from) == [b |-> at, p |-> p, from |-> from]

\* the bytes behind a buffer
BytesOf(name) == heap[bufs[name].b]

\* Buffer::write: the bytes with data copied in at offset
write(bytes, offset, data) ==
    [i \in 1..Len(bytes) |->
        IF i > offset /\ i <= offset + Len(data) THEN data[i - offset] ELSE bytes[i]]

\* Buffer::zero
zero(bytes) == Zeros(Len(bytes))

\* the buffers and the bytes after one more buffer: a clone that shares
\* the source's boxed slice
Cloned_shared(name, src) ==
    [bufs |-> Insert(bufs, name, InsecureBuffer(bufs[src].b, bufs[src].p, src)),
     heap |-> heap]

\* derive(Clone): the boxed slice is copied, and so is the cell p
Cloned(name, src) ==
    [bufs |-> Insert(bufs, name, InsecureBuffer(name, bufs[src].p, src)),
     heap |-> Insert(heap, name, BytesOf(src))]

\* the record: the client has changed the bytes of the buffer itself
Own(name, changed) == IF changed THEN [bufs EXCEPT ![name].from = name] ELSE bufs

\* buf_new_secure(size) -> InsecureBuffer::new(size)
BufNew(size) ==
    LET name == Cardinality(DOMAIN bufs) + 1
    IN /\ bufs' = Insert(bufs, name, InsecureBuffer(name, "NoAccess", name))
       /\ heap' = Insert(heap, name, Zeros(size))
       /\ cres' = Call("new", "Ok", <<>>)
       /\ UNCHANGED rest_vars

\* box_clone
BoxClone(src) ==
    LET name == Cardinality(DOMAIN bufs) + 1
    IN /\ bufs' = Cloned(name, src).bufs
       /\ heap' = Cloned(name, src).heap
       /\ cres' = Call("box_clone", "Ok", <<>>)
       /\ UNCHANGED rest_vars

\* a call that panics: nothing is changed
Panics(op) ==
    /\ cres' = Call(op, "panic", <<>>)
    /\ UNCHANGED <<bufs, heap, rest_vars>>

\* set_no_access
SetNoAccess(name) ==
    IF bufs[name].p = "NoAccess"
    THEN Panics("set_no_access")
    ELSE /\ bufs' = [bufs EXCEPT ![name].p = "NoAccess"]
         /\ cres' = Call("set_no_access", "Ok", <<>>)
         /\ UNCHANGED <<heap, rest_vars>>

\* set_readable
SetReadable(name) ==
    IF bufs[name].p # "NoAccess"
    THEN Panics("set_readable")
    ELSE /\ bufs' = [bufs EXCEPT ![name].p = "ReadOnly"]
         /\ cres' = Call("set_readable", "Ok", <<>>)
         /\ UNCHANGED <<heap, rest_vars>>

\* set_writable
SetWritable(name) ==
    IF bufs[name].p # "NoAccess"
    THEN Panics("set_writable")
    ELSE /\ bufs' = [bufs EXCEPT ![name].p = "ReadWrite"]
         /\ cres' = Call("set_writable", "Ok", <<>>)
         /\ UNCHANGED <<heap, rest_vars>>

\* Deref::deref: the caller reads the slice
BufDeref(name) ==
    IF bufs[name].p = "NoAccess"
    THEN Panics("deref")
    ELSE /\ cres' = Call("deref", "Ok", BytesOf(name))
         /\ UNCHANGED <<bufs, heap, rest_vars>>

\* DerefMut::deref_mut: the caller stores v at index k of the slice
BufDerefMut(name, k, v) ==
    IF bufs[name].p # "ReadWrite"
    THEN Panics("deref_mut")
    ELSE /\ heap' = [heap EXCEPT ![bufs[name].b][k] = v]
         /\ bufs' = Own(name, BytesOf(name)[k] # v)
         /\ cres' = Call("deref_mut", "Ok", <<>>)
         /\ UNCHANGED rest_vars

\* read_lock(): set_readable, the guard read through, set_no_access on drop
BufReadLock(name) ==
    IF bufs[name].p # "NoAccess"
    THEN Panics("read_lock")
    ELSE /\ cres' = Call("read_lock", "Ok", BytesOf(name))
         /\ UNCHANGED <<bufs, heap, rest_vars>>

\* write(offset, data): under a write_lock() that is dropped on return
BufWrite(name, offset, data) ==
    IF offset + Len(data) > Len(BytesOf(name))
    THEN /\ cres' = Call("write", "WriteOverflow", <<>>)
         /\ UNCHANGED <<bufs, heap, rest_vars>>
    ELSE IF bufs[name].p # "NoAccess"
    THEN Panics("write")
    ELSE /\ heap' = [heap EXCEPT ![bufs[name].b] = write(@, offset, data)]
         /\ bufs' = Own(name, write(BytesOf(name), offset, data) # BytesOf(name))
         /\ cres' = Call("write", "Ok", <<>>)
         /\ UNCHANGED rest_vars

\* zero(): whatever the protection state
BufZero(name) ==
    /\ heap' = [heap EXCEPT ![bufs[name].b] = zero(@)]
    /\ bufs' = Own(name, zero(BytesOf(name)) # BytesOf(name))
    /\ cres' = Call("zero", "Ok", <<>>)
    /\ UNCHANGED rest_vars

\* a client of the buffers alone: no transport
NoTransport == NewTransport({}) /\ tls_config = "Unencrypted" /\ DataIdle

ByteSeqs(n) == [1..n -> 0..MaxByte]

BufRoom == Cardinality(DOMAIN bufs) < MaxBufs

DoBufNew == BufRoom /\ \E size \in 1..MaxBufLen : BufNew(size)

DoBoxClone == BufRoom /\ \E src \in DOMAIN bufs : BoxClone(src)

DoSetNoAccess == \E name \in DOMAIN bufs : SetNoAccess(name)

DoSetReadable == \E name \in DOMAIN bufs : SetReadable(name)

DoSetWritable == \E name \in DOMAIN bufs : SetWritable(name)

DoBufDeref == \E name \in DOMAIN bufs : BufDeref(name)

DoBufDerefMut ==
    \E name \in DOMAIN bufs :
        \E k \in 1..Len(BytesOf(name)), v \in 0..MaxByte : BufDerefMut(name, k, v)

DoBufReadLock == \E name \in DOMAIN bufs : BufReadLock(name)

DoBufWrite ==
    \E name \in DOMAIN bufs, offset \in 0..MaxBufLen, n \in 1..MaxBufLen :
        \E data \in ByteSeqs(n) : BufWrite(name, offset, data)

DoBufZero == \E name \in DOMAIN bufs : BufZero(name)

NextBuffer ==
    \/ DoBufNew
    \/ DoBoxClone
    \/ DoSetNoAccess
    \/ DoSetReadable
    \/ DoSetWritable
    \/ DoBufDeref
    \/ DoBufDerefMut
    \/ DoBufReadLock
    \/ DoBufWrite
    \/ DoBufZero

BufferInit == NoTransport /\ CryptoIdle

SpecBuffer == BufferInit /\ [][NextBuffer]_vars

----------------------------------------------------------------------------
(* FakeCryptoSystem: the reference implementation of the crypto surface *)

pwhash_salt_bytes == 8
pwhash_bytes == 16
sign_seed_bytes == 8
sign_public_key_bytes == 32
sign_secret_key_bytes == 8
sign_bytes == 16

\* bytes a message or a password has at most
MaxInputLen == 9

\* what sign_seed_keypair leaves in its two output buffers
KeyOut(ret, pk, sk) == [ret |-> ret, pk |-> pk, sk |-> sk]

\* a variant that zeroes the public key before it has checked the sizes
sign_seed_keypair_zero_first(seed, public_key, secret_key) ==
    IF Len(seed) # sign_seed_bytes
    THEN KeyOut("BadSeedSize", zero(public_key), secret_key)
    ELSE IF Len(public_key) # sign_public_key_bytes
    THEN KeyOut("BadPublicKeySize", zero(public_key), secret_key)
    ELSE IF Len(secret_key) # sign_secret_key_bytes
    THEN KeyOut("BadSecretKeySize", zero(public_key), secret_key)
    ELSE KeyOut("Ok", write(zero(public_key), 0, seed), write(secret_key, 0, seed))

\* a variant that does not zero the public key
sign_seed_keypair_no_zero(seed, public_key, secret_key) ==
    IF Len(seed) # sign_seed_bytes
    THEN KeyOut("BadSeedSize", public_key, secret_key)
    ELSE IF Len(public_key) # sign_public_key_bytes
    THEN KeyOut("BadPublicKeySize", public_key, secret_key)
    ELSE IF Len(secret_key) # sign_secret_key_bytes
    THEN KeyOut("BadSecretKeySize", public_key, secret_key)
    ELSE KeyOut("Ok", write(public_key, 0, seed), write(secret_key, 0, seed))

sign_seed_keypair(seed, public_key, secret_key) ==
    IF Len(seed) # sign_seed_bytes
    THEN KeyOut("BadSeedSize", public_key, secret_key)
    ELSE IF Len(public_key) # sign_public_key_bytes
    THEN KeyOut("BadPublicKeySize", public_key, secret_key)
    ELSE IF Len(secret_key) # sign_secret_key_bytes
    THEN KeyOut("BadSecretKeySize", public_key, secret_key)
    ELSE KeyOut("Ok", write(zero(public_key), 0, seed), write(secret_key, 0, seed))

\* rnd: what randombytes_buf has put into the fresh seed
sign_keypair(public_key, secret_key, rnd) ==
    IF Len(public_key) # sign_public_key_bytes
    THEN KeyOut("BadPublicKeySize", public_key, secret_key)
    ELSE IF Len(secret_key) # sign_secret_key_bytes
    THEN KeyOut("BadSecretKeySize", public_key, secret_key)
    ELSE sign_seed_keypair(rnd, public_key, secret_key)

\* a call's return value and what it leaves in its one output buffer
BufOut(ret, b) == [ret |-> ret, b |-> b]

sign(signature, message, secret_key) ==
    IF Len(signature) # sign_bytes
    THEN BufOut("BadSignatureSize", signature)
    ELSE IF Len(secret_key) # sign_secret_key_bytes
    THEN BufOut("BadSecretKeySize", signature)
    ELSE LET mlen == IF Len(message) > 8 THEN 8 ELSE Len(message)
         IN BufOut("Ok", write(write(signature, 0, secret_key), 8,
                               SubSeq(message, 1, mlen)))

\* a variant that compares the key part of the signature alone
sign_verify_key_only(signature, message, public_key) ==
    IF Len(signature) # sign_bytes
    THEN "BadSignatureSize"
    ELSE IF Len(public_key) # sign_public_key_bytes
    THEN "BadPublicKeySize"
    ELSE IF SubSeq(signature, 1, 8) = SubSeq(public_key, 1, 8)
    THEN "true"
    ELSE "false"

\* Ok(true) and Ok(false) are "true" and "false"
sign_verify(signature, message, public_key) ==
    IF Len(signature) # sign_bytes
    THEN "BadSignatureSize"
    ELSE IF Len(public_key) # sign_public_key_bytes
    THEN "BadPublicKeySize"
    ELSE LET mlen == IF Len(message) > 8 THEN 8 ELSE Len(message)
         IN IF /\ SubSeq(signature, 1, 8) = SubSeq(public_key, 1, 8)
               /\ SubSeq(signature, 9, mlen + 8) = SubSeq(message, 1, mlen)
            THEN "true"
            ELSE "false"

pwhash(hash, password, salt) ==
    IF Len(hash) # pwhash_bytes
    THEN BufOut("BadHashSize", hash)
    ELSE IF Len(salt) # pwhash_salt_bytes
    THEN BufOut("BadSaltSize", hash)
    ELSE LET plen == IF Len(password) > 8 THEN 8 ELSE Len(password)
         IN BufOut("Ok", write(write(hash, 0, salt), 8, SubSeq(password, 1, plen)))

\* the calls, on the buffers a client holds under these names
SignSeedKeypair(seed, pk, sk) ==
    LET r == sign_seed_keypair(BytesOf(seed), BytesOf(pk), BytesOf(sk))
    IN /\ heap' = [heap EXCEPT ![bufs[pk].b] = r.pk, ![bufs[sk].b] = r.sk]
       /\ bufs' = IF r.ret = "Ok"
                  THEN [bufs EXCEPT ![pk].from = seed, ![sk].from = seed]
                  ELSE bufs
       /\ cres' = Call("sign_seed_keypair", r.ret, <<pk, sk>>)
       /\ UNCHANGED rest_vars

SignKeypair(pk, sk, rnd) ==
    LET r == sign_keypair(BytesOf(pk), BytesOf(sk), rnd)
    IN /\ heap' = [heap EXCEPT ![bufs[pk].b] = r.pk, ![bufs[sk].b] = r.sk]
       /\ bufs' = IF r.ret = "Ok"
                  THEN [bufs EXCEPT ![pk].from = pk, ![sk].from = sk]
                  ELSE bufs
       /\ cres' = Call("sign_keypair", r.ret, <<pk, sk>>)
       /\ UNCHANGED rest_vars

Sign(sig, msg, sk) ==
    LET r == sign(BytesOf(sig), BytesOf(msg), BytesOf(sk))
    IN /\ heap' = [heap EXCEPT ![bufs[sig].b] = r.b]
       /\ bufs' = IF r.ret = "Ok" THEN [bufs EXCEPT ![sig].from = msg] ELSE bufs
       /\ cres' = Call("sign", r.ret, <<sig, msg>>)
       /\ UNCHANGED rest_vars

SignVerify(sig, msg, pk) ==
    /\ cres' = Call("sign_verify", sign_verify(BytesOf(sig), BytesOf(msg), BytesOf(pk)),
                    <<sig, msg>>)
    /\ UNCHANGED <<bufs, heap, rest_vars>>

Pwhash(hash, pw, salt) ==
    LET r == pwhash(BytesOf(hash), BytesOf(pw), BytesOf(salt))
    IN /\ heap' = [heap EXCEPT ![bufs[hash].b] = r.b]
       /\ bufs' = IF r.ret = "Ok" THEN [bufs EXCEPT ![hash].from = pw] ELSE bufs
       /\ cres' = Call("pwhash", r.ret, <<hash>>)
       /\ UNCHANGED rest_vars

----------------------------------------------------------------------------
(* Clients of the crypto system *)

\* Box::new(vec![v; n]) and other contents a client may hand in
Fill(n, v) == [i \in 1..n |-> v]

Ramp(n) == [i \in 1..n |-> i]

Contents(n) == {Fill(n, v) : v \in 0..MaxByte} \cup {Ramp(n)}

\* the right size and the sizes off by one
Around(n) == {n - 1, n, n + 1}

Sized(sizes) == UNION {Contents(n) : n \in sizes}

InputLens == {0, 3, 8, MaxInputLen}

\* the client's buffers, each under its own name, none of them locked
Held(names) == [name \in names |-> InsecureBuffer(name, "NoAccess", name)]

NoCall == Call("", "", <<>>)

\* two key pairs made from one seed buffer
KeyNames == {"seed", "pk1", "sk1", "pk2", "sk2"}

KeysInit ==
    /\ NoTransport
    /\ bufs = Held(KeyNames)
    /\ \E seed \in Sized(Around(sign_seed_bytes)),
          pk1 \in Sized(Around(sign_public_key_bytes)),
          sk1 \in Sized(Around(sign_secret_key_bytes)),
          pk2 \in Sized({sign_public_key_bytes}),
          sk2 \in Sized({sign_secret_key_bytes}) :
          heap = [name \in KeyNames |->
                     CASE name = "seed" -> seed
                       [] name = "pk1" -> pk1
                       [] name = "sk1" -> sk1
                       [] name = "pk2" -> pk2
                       [] OTHER -> sk2]
    /\ cres = NoCall

KeyPairs == {<<"pk1", "sk1">>, <<"pk2", "sk2">>}

DoSignSeedKeypair == \E pair \in KeyPairs : SignSeedKeypair("seed", pair[1], pair[2])

DoSignKeypair ==
    \E pair \in KeyPairs, rnd \in Contents(sign_seed_bytes) :
        SignKeypair(pair[1], pair[2], rnd)

NextKeys == DoSignSeedKeypair \/ DoSignKeypair

SpecKeys == KeysInit /\ [][NextKeys]_vars

\* a signer and a verifier: one key pair, one message, one signature buffer
SignNames == {"seed", "pk", "sk", "msg", "sig"}

SignInit ==
    /\ NoTransport
    /\ bufs = Held(SignNames)
    /\ \E seed \in Contents(sign_seed_bytes), msg \in Sized(InputLens),
          sig \in Contents(sign_bytes) :
          heap = [name \in SignNames |->
                     CASE name = "seed" -> seed
                       [] name = "pk" -> Fill(sign_public_key_bytes, MaxByte)
                       [] name = "sk" -> Fill(sign_secret_key_bytes, 0)
                       [] name = "msg" -> msg
                       [] OTHER -> sig]
    /\ cres = NoCall

DoKeygen == SignSeedKeypair("seed", "pk", "sk")

DoSign == Sign("sig", "msg", "sk")

DoSignVerify == SignVerify("sig", "msg", "pk")

\* the client writes one byte of the signature buffer itself
ForgeOffsets == {0, 8, sign_bytes - 1}

DoForge ==
    \E offset \in ForgeOffsets, v \in 0..MaxByte : BufWrite("sig", offset, <<v>>)

NextSign == DoKeygen \/ DoSign \/ DoSignVerify \/ DoForge

SpecSign == SignInit /\ [][NextSign]_vars

\* two password hashes of one password and one salt
HashNames == {"pw", "salt", "hash1", "hash2"}

PwhashInit ==
    /\ NoTransport
    /\ bufs = Held(HashNames)
    /\ \E pw \in Sized(InputLens), salt \in Sized(Around(pwhash_salt_bytes)),
          hash1 \in Sized(Around(pwhash_bytes)), hash2 \in Contents(pwhash_bytes) :
          heap = [name \in HashNames |->
                     CASE name = "pw" -> pw
                       [] name = "salt" -> salt
                       [] name = "hash1" -> hash1
                       [] OTHER -> hash2]
    /\ cres = NoCall

DoPwhash == \E hash \in {"hash1", "hash2"} : Pwhash(hash, "pw", "salt")

\* the client zeroes a hash buffer before it has it filled again
DoHashZero == \E hash \in {"hash1", "hash2"} : BufZero(hash)

NextPwhash == DoPwhash \/ DoHashZero

SpecPwhash == PwhashInit /\ [][NextPwhash]_vars

----------------------------------------------------------------------------
(* Properties of the buffers *)

\* the bytes behind a buffer after the step
BytesAfter(name) == heap'[bufs'[name].b]

\* the buffer the step has made
Made == Cardinality(DOMAIN bufs) + 1

OthersKept(name) ==
    \A other \in DOMAIN bufs \ {name} : BytesAfter(other) = BytesOf(other)

\* C25: zero() leaves a buffer of the same length with every byte 0; a
\* clone holds the bytes its source had when it was cloned, and neither
\* zero() nor a write to one buffer changes the bytes of another, a clone
\* of it or its source included
ZeroAndCloneFrame ==
    [][/\ \A name \in DOMAIN bufs :
             BufZero(name) =>
                 /\ BytesAfter(name) = Zeros(Len(BytesOf(name)))
                 /\ OthersKept(name)
       /\ \A src \in DOMAIN bufs :
             BoxClone(src) =>
                 /\ BytesAfter(Made) = BytesOf(src)
                 /\ BytesAfter(src) = BytesOf(src)
                 /\ OthersKept(src)
       /\ \A name \in DOMAIN bufs :
             (cres'.op \in {"write", "deref_mut"}
                /\ BytesAfter(name) # BytesOf(name)) => OthersKept(name)]_vars

\* the source of a clone has been zeroed and the clone holds other bytes
ZeroedAfterClone ==
    /\ cres = Call("zero", "Ok", <<>>)
    /\ \E name \in DOMAIN bufs :
          /\ bufs[name].from # name
          /\ BytesOf(bufs[name].from) = Zeros(Len(BytesOf(name)))
          /\ BytesOf(name) # BytesOf(bufs[name].from)

\* C26: a buffer made by clone() starts in NoAccess, whatever the
\* protection state of its source
CloneStartsNoAccess ==
    cres.op = "box_clone" => bufs[Cardinality(DOMAIN bufs)].p = "NoAccess"

\* C27: every buffer starts in NoAccess; its bytes are read only in
\* ReadOnly or ReadWrite and written only in ReadWrite; access is acquired
\* only from NoAccess and released only from another state, anything else
\* being an error; and when a scoped acquisition has ended the buffer is in
\* NoAccess again
ProtectionDiscipline ==
    [][/\ \A name \in DOMAIN bufs' \ DOMAIN bufs : bufs'[name].p = "NoAccess"
       /\ \A name \in DOMAIN bufs :
             LET p == bufs[name].p
                 ok == cres'.ret = "Ok"
             IN /\ BufDeref(name) => (ok <=> p \in {"ReadOnly", "ReadWrite"})
                /\ (\E k \in 1..Len(BytesOf(name)), v \in 0..MaxByte :
                       BufDerefMut(name, k, v)) => (ok <=> p = "ReadWrite")
                /\ SetReadable(name) =>
                       IF p = "NoAccess" THEN bufs'[name].p = "ReadOnly"
                       ELSE cres'.ret = "panic" /\ bufs' = bufs
                /\ SetWritable(name) =>
                       IF p = "NoAccess" THEN bufs'[name].p = "ReadWrite"
                       ELSE cres'.ret = "panic" /\ bufs' = bufs
                /\ SetNoAccess(name) =>
                       IF p # "NoAccess" THEN bufs'[name].p = "NoAccess"
                       ELSE cres'.ret = "panic" /\ bufs' = bufs
                /\ (BufReadLock(name) /\ ok) =>
                       p = "NoAccess" /\ bufs'[name].p = "NoAccess"
                /\ (cres'.op = "write" /\ ok /\ BytesAfter(name) # BytesOf(name)) =>
                       p = "NoAccess" /\ bufs'[name].p = "NoAccess"]_vars

----------------------------------------------------------------------------
(* Properties of the key pairs *)

\* the errors of the buffers that have the wrong size
SizeErrors(seed_bad, pk_bad, sk_bad) ==
    (IF seed_bad THEN {"BadSeedSize"} ELSE {})
        \cup (IF pk_bad THEN {"BadPublicKeySize"} ELSE {})
        \cup (IF sk_bad THEN {"BadSecretKeySize"} ELSE {})

\* the call has returned the error of a buffer of the wrong size and has
\* changed no buffer, or Ok when every size is right
Rejects(errors) ==
    IF errors = {}
    THEN cres'.ret = "Ok"
    ELSE cres'.ret \in errors /\ heap' = heap

\* C21: sign_seed_keypair returns BadSeedSize, BadPublicKeySize or
\* BadSecretKeySize when the seed, the public key buffer or the secret key
\* buffer is one byte too short or too long, sign_keypair the same for its
\* two buffers, and a call that returns such an error has written to no
\* buffer
KeypairSizeErrors ==
    [][\A pair \in KeyPairs :
          LET pk_bad == Len(BytesOf(pair[1])) # sign_public_key_bytes
              sk_bad == Len(BytesOf(pair[2])) # sign_secret_key_bytes
              seed_bad == Len(BytesOf("seed")) # sign_seed_bytes
          IN /\ SignSeedKeypair("seed", pair[1], pair[2]) =>
                    Rejects(SizeErrors(seed_bad, pk_bad, sk_bad))
             /\ (\E rnd \in Contents(sign_seed_bytes) :
                    SignKeypair(pair[1], pair[2], rnd)) =>
                    Rejects(SizeErrors(FALSE, pk_bad, sk_bad))]_vars

\* sign_seed_keypair has rejected a public key buffer one byte too long
\* that was not zero
LongPublicKeyRejected ==
    /\ cres = Call("sign_seed_keypair", "BadPublicKeySize", <<"pk1", "sk1">>)
    /\ Len(BytesOf("pk1")) = sign_public_key_bytes + 1
    /\ BytesOf("pk1") # Zeros(sign_public_key_bytes + 1)
    /\ Len(BytesOf("sk1")) = sign_secret_key_bytes

\* both pairs hold what sign_seed_keypair made of the seed
BothFromSeed == \A name \in KeyNames \ {"seed"} : bufs[name].from = "seed"

\* C23: two calls of sign_seed_keypair with the same seed leave the same
\* public key and the same secret key, whatever their output buffers held
\* before
KeypairDeterministic ==
    BothFromSeed =>
        /\ BytesOf("pk1") = BytesOf("pk2")
        /\ BytesOf("sk1") = BytesOf("sk2")

\* the two pairs have been made from a seed that is not zero, the second
\* after the first
SeededTwice ==
    /\ BothFromSeed
    /\ cres = Call("sign_seed_keypair", "Ok", <<"pk2", "sk2">>)
    /\ BytesOf("seed") = Ramp(sign_seed_bytes)
    /\ BytesOf("sk2") = Ramp(sign_seed_bytes)

----------------------------------------------------------------------------
(* Properties of signatures and password hashes *)

\* the key pair is what sign_seed_keypair made of the seed
KeysMade == bufs["pk"].from = "seed" /\ bufs["sk"].from = "seed"

\* the bytes are what sign leaves in some signature buffer for the message
\* and the secret key
ProducedBySign(bytes) ==
    \E before \in Contents(sign_bytes) \cup {bytes} :
        sign(before, BytesOf("msg"), BytesOf("sk")) = BufOut("Ok", bytes)

\* C22: with a key pair made by sign_seed_keypair, what sign has left in the
\* signature buffer verifies against the message and the public key, and
\* sign_verify answers true for no signature of the right size but one that
\* sign produces for that message and the secret key
SignatureSound ==
    KeysMade =>
        /\ cres = Call("sign", "Ok", <<"sig", "msg">>) =>
              sign_verify(BytesOf("sig"), BytesOf("msg"), BytesOf("pk")) = "true"
        /\ cres.op = "sign_verify" =>
              /\ cres.ret \in {"true", "false"}
              /\ cres.ret = "true" <=> ProducedBySign(BytesOf("sig"))

\* a signature with the right key part and another message part has been
\* refused
ForgedRejected ==
    /\ KeysMade
    /\ cres = Call("sign_verify", "false", <<"sig", "msg">>)
    /\ bufs["sig"].from = "sig"
    /\ SubSeq(BytesOf("sig"), 1, 8) = BytesOf("sk")
    /\ Len(BytesOf("msg")) >= 3

\* C24: two calls of pwhash with the same password and the same salt leave
\* the same bytes in the whole of their destination buffers, whatever the
\* length of the password and whatever the buffers held before
PwhashDeterministic ==
    (bufs["hash1"].from = "pw" /\ bufs["hash2"].from = "pw") =>
        BytesOf("hash1") = BytesOf("hash2")

----------------------------------------------------------------------------
(* EntryData::merge *)

MaxAspects == 2

EntryAddresses == {"e1", "e2"}
AspectAddresses == {"a1", "a2"}
AspectBodies == {"x", "y"}

\* type_hint and publish_ts are carried along with aspect and play no part
EntryAspectData(aspect_address, aspect) ==
    [aspect_address |-> aspect_address, aspect |-> aspect]

Aspects == {EntryAspectData(a, b) : a \in AspectAddresses, b \in AspectBodies}

AspectLists == UNION {[1..n -> Aspects] : n \in 0..MaxAspects}

EntryDatas == {EntryData(e, l) : e \in EntryAddresses, l \in AspectLists}

\* self.aspect_list.iter().any(|a| a.aspect_address == aspect.aspect_address)
HasAddress(aspect_list, aspect_address) ==
    \E i \in 1..Len(aspect_list) : aspect_list[i].aspect_address = aspect_address

\* the aspects of other whose address self does not have, in other's order
RECURSIVE to_append(_, _)
to_append(self, rest) ==
    IF rest = <<>> THEN <<>>
    ELSE (IF HasAddress(self.aspect_list, Head(rest).aspect_address)
          THEN <<>> ELSE <<Head(rest)>>) \o to_append(self, Tail(rest))

merge(self, other) ==
    IF self.entry_address # other.entry_address
    THEN [self |-> self, ret |-> FALSE]
    ELSE LET new == to_append(self, other.aspect_list) IN
         IF Len(new) = 0
         THEN [self |-> self, ret |-> FALSE]
         ELSE [self |-> [self EXCEPT !.aspect_list = @ \o new], ret |-> TRUE]

Merge(other) ==
    /\ entry' = [self |-> merge(entry.self, other).self, other |-> other,
                 ret |-> merge(entry.self, other).ret]
    /\ UNCHANGED <<net_vars, crypto_vars>>

DoMerge == \E other \in EntryDatas : Merge(other)

NextMerge == DoMerge

MergeInit ==
    /\ NewTransport({})
    /\ tls_config = "Unencrypted"
    /\ CryptoIdle
    /\ \E self \in EntryDatas :
          entry = [self |-> self, other |-> EntryData("", <<>>), ret |-> FALSE]

SpecMerge == MergeInit /\ [][NextMerge]_vars

UniqueAddresses(aspect_list) ==
    \A i, j \in 1..Len(aspect_list) :
        aspect_list[i].aspect_address = aspect_list[j].aspect_address => i = j

\* C40: merge keeps the aspect addresses of self unique, whatever the other
\* EntryData holds; it returns true exactly when self.aspect_list grew and
\* leaves self as it was when it returns false
MergeKeepsUnique ==
    [][/\ UniqueAddresses(entry.self.aspect_list) =>
             UniqueAddresses(entry'.self.aspect_list)
       /\ entry'.ret <=> Len(entry'.self.aspect_list) > Len(entry.self.aspect_list)
       /\ ~entry'.ret => entry'.self = entry.self]_vars

============================================================================
